---- MODULE Spec2Model ----
(***************************************************************************)
(* binrep: a signed, versioned binary-artifact repository.                 *)
(*                                                                         *)
(* The model follows binrep-core: the repository (push / get / pull over a *)
(* path-keyed backend), the signature check of a manifest, the sync engine *)
(* that mirrors the greatest matching version into a destination           *)
(* directory, and the lock file that guards a sync.                        *)
(*                                                                         *)
(* A handler that runs from its call to its return without another writer  *)
(* in between is one action.  Its I/O steps are spelled out inside the     *)
(* operator that models it, and a "fault" argument names the step at which *)
(* the environment makes the handler fail ("err"), kills the process       *)
(* ("kill") or makes rename fall back to copy ("copy").  The lock file is  *)
(* modelled step by step, one action per system call, because its claims   *)
(* are about interleavings.                                                *)
(***************************************************************************)
EXTENDS Integers, Sequences, FiniteSets, TLC

VARIABLES
    store,      \* the backend: path (string) -> stored content
    dest,       \* the destination directory: file name -> content
    orphans,    \* temporary directories left in dest by killed processes
    tampers,    \* how many times the backend content was altered out of band
    pushed,     \* history: version -> manifest returned by the first successful push
    last,       \* the last call: its arguments, its fault and what it returned
    lpc,        \* lock protocol: each process's position
    fd,         \* lock protocol: the inode each process holds open (0: none)
    linked,     \* lock protocol: the inode the lock path names (0: no file)
    flock,      \* lock protocol: inode -> process holding its exclusive lock (0: none)
    pubs,       \* concurrent publishers: each one's position in push_artifact
    syncs,      \* concurrent syncs: each one's position and the version it aims at
    ex          \* extexec: the caller, the child, its pipes and the capture threads

vars ==
    <<store, dest, orphans, tampers, pushed, last, lpc, fd, linked, flock, pubs, syncs,
      ex>>

(***************************************************************************)
(* Bounds of the model.                                                    *)
(***************************************************************************)
NumProcs == 3       \* sync processes racing for one lock file
MaxTampers == 1     \* out-of-band alterations of the backend
MaxOrphans == 1     \* leftover temporary directories that are counted
MaxPathLen == 4     \* characters of a backend-relative path of the file backend

(***************************************************************************)
(* Small helpers on finite maps and sequences.                             *)
(***************************************************************************)
Range(s) == {s[i] : i \in DOMAIN s}

Has(dir, k) == k \in DOMAIN dir

Put(dir, k, c) == [x \in DOMAIN dir \cup {k} |-> IF x = k THEN c ELSE dir[x]]

Del(dir, k) == [x \in DOMAIN dir \ {k} |-> dir[x]]

EmptyDir == [x \in {} |-> 0]

(***************************************************************************)
(* Semantic versions and requirements (the semver crate, as used by        *)
(* binrep.rs).  A version is major.minor.patch with an optional            *)
(* pre-release tag; the empty tag is a release.                            *)
(***************************************************************************)
Ver(ma, mi, pa, pre) == [major |-> ma, minor |-> mi, patch |-> pa, pre |-> pre]

V100a == Ver(1, 0, 0, "alpha1")
V100 == Ver(1, 0, 0, "")
V120 == Ver(1, 2, 0, "")
V200 == Ver(2, 0, 0, "")

\* Lexical rank of the pre-release tags in use ("alph" < "alpha1").
PreRank == ("alph" :> 1) @@ ("alpha1" :> 2)

\* Prerelease::cmp: the empty tag is greater than every tag.
PreLess(p, q) ==
    IF p = "" THEN FALSE
    ELSE IF q = "" THEN TRUE
    ELSE PreRank[p] < PreRank[q]

\* Version::cmp (Ord), as used by Vec<Version>::sort.
VersionLess(a, b) ==
    IF a.major # b.major THEN a.major < b.major
    ELSE IF a.minor # b.minor THEN a.minor < b.minor
    ELSE IF a.patch # b.patch THEN a.patch < b.patch
    ELSE PreLess(a.pre, b.pre)

\* Display of a version: canonical SemVer string.
VersionString(v) ==
    ToString(v.major) \o "." \o ToString(v.minor) \o "." \o ToString(v.patch)
        \o (IF v.pre = "" THEN "" ELSE "-" \o v.pre)

\* A requirement is a list of comparators; a comparator's minor and patch
\* may be missing (None).
None == -1

Comparator(op, ma, mi, pa, pre) ==
    [op |-> op, major |-> ma, minor |-> mi, patch |-> pa, pre |-> pre]

matches_exact(c, v) ==
    /\ v.major = c.major
    /\ c.minor # None => v.minor = c.minor
    /\ c.patch # None => v.patch = c.patch
    /\ v.pre = c.pre

matches_greater(c, v) ==
    IF v.major # c.major THEN v.major > c.major
    ELSE IF c.minor = None THEN FALSE
    ELSE IF v.minor # c.minor THEN v.minor > c.minor
    ELSE IF c.patch = None THEN FALSE
    ELSE IF v.patch # c.patch THEN v.patch > c.patch
    ELSE PreLess(c.pre, v.pre)

matches_tilde(c, v) ==
    IF v.major # c.major THEN FALSE
    ELSE IF c.minor # None /\ v.minor # c.minor THEN FALSE
    ELSE IF c.patch # None /\ v.patch # c.patch THEN v.patch > c.patch
    ELSE ~PreLess(v.pre, c.pre)

matches_impl(c, v) ==
    CASE c.op = "Exact" -> matches_exact(c, v)
      [] c.op = "GreaterEq" -> matches_exact(c, v) \/ matches_greater(c, v)
      [] c.op = "Tilde" -> matches_tilde(c, v)

pre_is_compatible(c, v) ==
    /\ c.major = v.major
    /\ c.minor = v.minor
    /\ c.patch = v.patch
    /\ c.pre # ""

\* VersionReq::matches: every comparator matches, and a pre-release version
\* is admitted only by a comparator that names a pre-release of the same
\* major.minor.patch.
Matches(req, v) ==
    /\ \A i \in DOMAIN req : matches_impl(req[i], v)
    /\ v.pre = "" \/ \E i \in DOMAIN req : pre_is_compatible(req[i], v)

\* parse_version_req("latest" | "any") and VersionReq::STAR: no comparator.
STAR == <<>>
\* "~1"
Tilde1 == <<Comparator("Tilde", 1, None, None, "")>>
\* ">=1.0.0-alph"
GeAlph == <<Comparator("GreaterEq", 1, 0, 0, "alph")>>
\* exact(v) of test_sync_file_presence
Exact(v) == <<Comparator("Exact", v.major, v.minor, v.patch, v.pre)>>

\* Vec::sort (insertion into an ordered list, by Version::cmp).
\* last_version without its sort: the list in the order it was published.
Unsorted(s) == s

RECURSIVE SortVersions(_)
SortVersions(s) ==
    IF s = <<>> THEN <<>>
    ELSE LET rest == SortVersions(Tail(s))
             x == Head(s)
             below == SelectSeq(rest, LAMBDA y : VersionLess(y, x))
             above == SelectSeq(rest, LAMBDA y : ~VersionLess(y, x))
         IN below \o <<x>> \o above

(***************************************************************************)
(* Artifact names and backend paths (path.rs).  A name is a string; Chars  *)
(* gives the characters of the names that occur, for validation reads a    *)
(* name character by character.                                            *)
(***************************************************************************)
ArtifactName == "binrep"

OtherName == "t-1_a.B"

BadName == "some "

SlashName == "a/b"

Chars ==
    ("binrep" :> <<"b", "i", "n", "r", "e", "p">>)
        @@ ("t-1_a.B" :> <<"t", "-", "1", "_", "a", ".", "B">>)
        @@ ("some " :> <<"s", "o", "m", "e", " ">>)
        @@ ("a/b" :> <<"a", "/", "b">>)
        @@ ("" :> <<>>)

AsciiAlnum ==
    {"a", "b", "c", "d", "e", "f", "g", "h", "i", "j", "k", "l", "m",
     "n", "o", "p", "q", "r", "s", "t", "u", "v", "w", "x", "y", "z",
     "A", "B", "C", "D", "E", "F", "G", "H", "I", "J", "K", "L", "M",
     "N", "O", "P", "Q", "R", "S", "T", "U", "V", "W", "X", "Y", "Z",
     "0", "1", "2", "3", "4", "5", "6", "7", "8", "9"}

\* A validation that only refuses the empty name.
ValidateNonEmpty(name) == Len(Chars[name]) # 0

validate_artifact_name(name) ==
    /\ Len(Chars[name]) # 0
    /\ \A i \in DOMAIN Chars[name] : Chars[name][i] \in AsciiAlnum \cup {"-", "_", "."}

ArtifactsPath == "/artifacts.sane"

VersionsPath(name) == name \o "/versions.sane"

ArtifactPath(name, version) ==
    name \o "/" \o VersionString(version) \o "/versions.sane"

\* A payload path that leaves the version out.
FlatFilePath(name, version, filename) == name \o "/" \o filename

ArtifactFilePath(name, version, filename) ==
    name \o "/" \o VersionString(version) \o "/" \o filename

(***************************************************************************)
(* Stored contents.  A payload is a blob; a metadata document is the value *)
(* it serialises, tagged with its schema: parsing a text under another     *)
(* schema fails.                                                           *)
(***************************************************************************)
Blob(data) == [kind |-> "blob", data |-> data]

ArtifactsDoc(names) == [kind |-> "artifacts", artifacts |-> names]

VersionsDoc(versions) == [kind |-> "versions", versions |-> versions]

ArtifactDoc(artifact) == [kind |-> "artifact", artifact |-> artifact]

SyncMetaDoc(artifact) == [kind |-> "syncmeta", artifact |-> artifact]

\* What a write that was cut short leaves: a text that parses as nothing.
TornDoc == [kind |-> "torn"]

NoArtifact == [version |-> Ver(0, 0, 0, ""), signature |-> <<>>, files |-> <<>>]

(***************************************************************************)
(* Crypto.  A digest is the base64 text of the hash of a content (no two   *)
(* contents in use share one); an HMAC is a function of the algorithm the  *)
(* signature method names, the key and the message, and verification       *)
(* recomputes it.                                                          *)
(***************************************************************************)
digest_file(content) ==
    IF content.kind = "blob" THEN "#" \o content.data \o ";" ELSE "#doc;"

Sign(method, key, msg) == method \o "(" \o key \o "," \o msg \o ")"

Verify(method, key, msg, signature) == signature = Sign(method, key, msg)

\* A signature text that is not base64.
NotBase64 == "!!"

\* The string that is signed: name and checksum of each file, in order.
RECURSIVE ToSign(_)
ToSign(files) ==
    IF files = <<>> THEN ""
    ELSE Head(files).name \o Head(files).checksum \o ToSign(Tail(files))

\* Config::create_file_test_config: publish parameters and one HMAC key.
TestConfig ==
    [publish |-> [signature_method |-> "HMAC_SHA384",
                  checksum_method |-> "SHA384",
                  hmac_signing_key |-> "test"],
     hmac_keys |-> ("test" :> "secret")]

\* HmacSignatureMethod::key_len: the output length of the digest, in bytes.
key_len ==
    ("HMAC_SHA256" :> 32) @@ ("HMAC_SHA384" :> 48) @@ ("HMAC_SHA512" :> 64)

\* The number of bytes each configured key decodes to.
KeyBytes == ("secret" :> 48) @@ ("short" :> 32)

\* Config::get_key_bytes: the key must be configured, decode from base64
\* and be of the length of the method.
get_key_bytes(cfg, key_id, signature_method) ==
    IF key_id \notin DOMAIN cfg.hmac_keys THEN "HmacSigningKeyNotFound"
    ELSE IF cfg.hmac_keys[key_id] = NotBase64 THEN "HmacSigningKeyNotFound"
    ELSE IF KeyBytes[cfg.hmac_keys[key_id]] # key_len[signature_method]
         THEN "InvalidHmacKey"
         ELSE ""

\* Config::get_verifier / get_hmac_verifier.
get_verifier(cfg, signature_method, key_id) ==
    IF get_key_bytes(cfg, key_id, signature_method) = ""
    THEN [ok |-> TRUE, method |-> signature_method, key |-> cfg.hmac_keys[key_id],
          err |-> ""]
    ELSE [ok |-> FALSE, method |-> signature_method, key |-> "",
          err |-> get_key_bytes(cfg, key_id, signature_method)]

\* Artifact::verify_signature: "true", "false", or the error it returns.
VerifyWith(verifier, artifact) ==
    IF ~verifier.ok THEN verifier.err
    ELSE IF artifact.signature.signature = NotBase64 THEN "Base64DecodeError"
    ELSE IF Verify(verifier.method, verifier.key, ToSign(artifact.files),
                   artifact.signature.signature)
         THEN "true"
         ELSE "false"

verify_signature(artifact, cfg) ==
    VerifyWith(get_verifier(cfg, artifact.signature.signature_method,
                            artifact.signature.key_id),
               artifact)

(***************************************************************************)
(* Faults.  A fault names one I/O step of a handler by its stage and, for  *)
(* a stage that runs once per file, the index of the file.                 *)
(*   "err":  the step returns an I/O or backend error;                     *)
(*   "kill": the process dies right before the step;                       *)
(*   "copy": rename fails with ErrorKind::Other, so mv falls back to copy. *)
(***************************************************************************)
Fault(kind, stage, idx) == [kind |-> kind, stage |-> stage, idx |-> idx]

NoFault == Fault("none", "", 0)

Errs(f, stage, i) == f.kind = "err" /\ f.stage = stage /\ f.idx = i

Kills(f, stage, i) == f.kind = "kill" /\ f.stage = stage /\ f.idx = i

Copies(f, stage, i) == f.kind = "copy" /\ f.stage = stage /\ f.idx = i

(***************************************************************************)
(* A handler in progress: st is "run" while it runs, then "killed" or the  *)
(* error it returns; out is the value computed so far; dir is the          *)
(* directory the handler writes into and tmp the temporary directory it    *)
(* created inside dir; orph counts the temporary directories that killed   *)
(* processes left in dir; hit tells whether the fault of the call struck.  *)
(***************************************************************************)
Machine(s, d, o, cfg, f) ==
    [st |-> "run", stage |-> "", store |-> s, dir |-> d, orph |-> o, out |-> <<>>,
     tmp |-> EmptyDir, hit |-> FALSE, cfg |-> cfg, f |-> f]

\* The handler returns error st, raised at stage.
Stop(m, st, stage) == [m EXCEPT !.st = st, !.stage = stage]

\* The fault strikes at stage: the handler returns error st, or is killed.
Trip(m, st, stage) == [m EXCEPT !.st = st, !.stage = stage, !.hit = TRUE]

Running(m) == m.st = "run"

(***************************************************************************)
(* Backend (backend/mod.rs, file_backend.rs): four operations on paths.    *)
(* An absent path is ResourceNotFound, any other failure is Other.         *)
(***************************************************************************)
\* Backend::read_file: m.out becomes the text read.
read_file(m, stage, path) ==
    IF ~Running(m) THEN m
    ELSE IF Kills(m.f, stage, 1) THEN Trip(m, "killed", stage)
    ELSE IF Errs(m.f, stage, 1) THEN Trip(m, "BackendOther", stage)
    ELSE IF ~Has(m.store, path) THEN Stop(m, "ResourceNotFound", stage)
    ELSE [m EXCEPT !.out = m.store[path]]

\* Backend::create_file: the file is created or truncated (step 1), then
\* written (step 2); a failure of the second step leaves a text that parses
\* as nothing.
create_file(m, stage, path, doc) ==
    IF ~Running(m) THEN m
    ELSE IF Kills(m.f, stage, 1) THEN Trip(m, "killed", stage)
    ELSE IF Errs(m.f, stage, 1) THEN Trip(m, "BackendOther", stage)
    ELSE IF Kills(m.f, stage, 2)
         THEN Trip([m EXCEPT !.store = Put(@, path, TornDoc)], "killed", stage)
    ELSE IF Errs(m.f, stage, 2)
         THEN Trip([m EXCEPT !.store = Put(@, path, TornDoc)], "BackendOther", stage)
    ELSE [m EXCEPT !.store = Put(@, path, doc)]

\* Backend::push_file: the local file's bytes are stored at the remote path.
push_file(m, i, local, remote) ==
    IF ~Running(m) THEN m
    ELSE IF Kills(m.f, "upload", i) THEN Trip(m, "killed", "upload")
    ELSE IF Errs(m.f, "upload", i) THEN Trip(m, "BackendOther", "upload")
    ELSE [m EXCEPT !.store = Put(@, remote, Blob(local.data))]

(***************************************************************************)
(* Repository (repository.rs).  A handler is a composition of steps; each  *)
(* step passes on, untouched, a machine that has stopped (the `?` of the   *)
(* source).                                                                *)
(***************************************************************************)
\* The handler returns value v, unless it has stopped.
WithOut(m, v) == IF Running(m) THEN [m EXCEPT !.out = v] ELSE m

\* sane::from_str of the text read, for the index.
ParseArtifacts(r) ==
    IF ~Running(r) THEN r
    ELSE IF r.out.kind # "artifacts" THEN Stop(r, "ParseError", "read_index")
    ELSE [r EXCEPT !.out = r.out.artifacts]

\* sane::from_str of the text read, for a version list.
ParseVersions(r) ==
    IF ~Running(r) THEN r
    ELSE IF r.out.kind # "versions" THEN Stop(r, "ParseError", "read_versions")
    ELSE [r EXCEPT !.out = r.out.versions]

\* Repository::list_artifacts: m.out becomes the list of names.
list_artifacts(m) == ParseArtifacts(read_file(m, "read_index", ArtifactsPath))

\* Repository::list_artifact_versions: m.out becomes the list of versions.
list_artifact_versions(m, name) ==
    IF ~Running(m) THEN m
    ELSE IF ~validate_artifact_name(name) THEN Stop(m, "ArtifactNameError", "validate")
    ELSE ParseVersions(read_file(m, "read_versions", VersionsPath(name)))

\* Repository::init, the match on the index read: the index as read, or a
\* fresh empty index written in its place when the read fails for whatever
\* reason.
InitFrom(m, r) ==
    IF Running(r) \/ r.st = "killed" THEN r
    ELSE WithOut(create_file([m EXCEPT !.hit = r.hit], "write_new_index",
                             ArtifactsPath, ArtifactsDoc(<<>>)),
                 <<>>)

\* Repository::init
init(m) == InitFrom(m, list_artifacts(m))

\* init_artifact that writes the empty version list and leaves the index.
RegisterListOnly(i, name) ==
    WithOut(create_file(i, "write_new_versions", VersionsPath(name), VersionsDoc(<<>>)), <<>>)

\* init_artifact, the ResourceNotFound arm after init: the empty version
\* list is written, then the index with the name appended.
RegisterArtifact(i, name) ==
    WithOut(create_file(create_file(i, "write_new_versions", VersionsPath(name),
                                    VersionsDoc(<<>>)),
                        "write_index", ArtifactsPath, ArtifactsDoc(Append(i.out, name))),
            <<>>)

\* init_artifact taking every failure of the read for a missing list.
InitArtifactAnyError(m, r, name) ==
    IF Running(r) \/ r.st = "killed" THEN r
    ELSE RegisterArtifact(init([m EXCEPT !.hit = r.hit]), name)

\* init_artifact, the match on the version list read.
InitArtifactFrom(m, r, name) ==
    IF Running(r) \/ r.st # "ResourceNotFound" THEN r
    ELSE RegisterArtifact(init(m), name)

\* Repository::init_artifact: m.out becomes the version list of the
\* artifact, created empty (and the name registered) when it is not found.
init_artifact(m, name) ==
    IF ~validate_artifact_name(name) THEN Stop(m, "ArtifactNameError", "validate")
    ELSE InitArtifactFrom(m, list_artifact_versions(m, name), name)

\* get_artifact without its signature check: whatever was read is returned.
AcceptAll(r, verified) == [r EXCEPT !.out = r.out.artifact]

\* get_artifact, the outcome of verify_signature on the manifest read.
VerifyOutcome(r, verified) ==
    IF verified = "true" THEN [r EXCEPT !.out = r.out.artifact]
    ELSE IF verified = "false" THEN Stop(r, "WrongArtifactSignature", "verify")
    ELSE Stop(r, verified, "verify")

\* get_artifact after the read: parse, then verify.
Verified(r) ==
    IF ~Running(r) THEN r
    ELSE IF r.out.kind # "artifact" THEN Stop(r, "ParseError", "read_manifest")
    ELSE VerifyOutcome(r, verify_signature(r.out.artifact, r.cfg))

\* Repository::get_artifact: m.out becomes the manifest, returned only when
\* its signature verifies.
get_artifact(m, name, version) ==
    IF ~Running(m) THEN m
    ELSE IF ~validate_artifact_name(name) THEN Stop(m, "ArtifactNameError", "validate")
    ELSE Verified(read_file(m, "read_manifest", ArtifactPath(name, version)))

\* Config::get_publish_algorithm / get_signer / get_hmac_signer.
get_publish_algorithm(cfg) ==
    IF "publish" \notin DOMAIN cfg THEN [ok |-> FALSE, err |-> "NoPublishParameters"]
    ELSE IF get_key_bytes(cfg, cfg.publish.hmac_signing_key,
                          cfg.publish.signature_method) # ""
         THEN [ok |-> FALSE,
               err |-> get_key_bytes(cfg, cfg.publish.hmac_signing_key,
                                     cfg.publish.signature_method)]
         ELSE [ok |-> TRUE, err |-> "",
               checksum_method |-> cfg.publish.checksum_method,
               signature_method |-> cfg.publish.signature_method,
               key_id |-> cfg.publish.hmac_signing_key,
               key |-> cfg.hmac_keys[cfg.publish.hmac_signing_key]]

\* push_artifact, first loop: digest of each local file, in order.  m.out
\* becomes the list of file entries.
RECURSIVE DigestFiles(_, _, _, _)
DigestFiles(m, files, i, method) ==
    IF ~Running(m) \/ i > Len(files) THEN m
    ELSE IF Kills(m.f, "digest", i) THEN Trip(m, "killed", "digest")
    ELSE IF Errs(m.f, "digest", i) THEN Trip(m, "IoError", "digest")
    ELSE DigestFiles(
             [m EXCEPT !.out = Append(@, [name |-> files[i].name,
                                          checksum |-> digest_file(Blob(files[i].data)),
                                          checksum_method |-> method])], files, i + 1, method)

\* push_artifact, second loop: upload of each local file under its base name.
RECURSIVE UploadFiles(_, _, _, _, _)
UploadFiles(m, name, version, files, i) ==
    IF ~Running(m) \/ i > Len(files) THEN m
    ELSE UploadFiles(
             push_file(m, i, files[i], ArtifactFilePath(name, version, files[i].name)),
             name, version, files, i + 1)

\* The manifest push_artifact builds from the digested files.
SignedArtifact(alg, version, files) ==
    [version |-> version,
     signature |-> [key_id |-> alg.key_id,
                    signature_method |-> alg.signature_method,
                    signature |-> Sign(alg.signature_method, alg.key, ToSign(files))],
     files |-> files]

\* The end of a push that writes the version list before the manifest.
PushListFirst(up, artifact, versions, name, version) ==
    WithOut(create_file(create_file(up, "write_versions", VersionsPath(name),
                                    VersionsDoc(Append(versions, version))),
                        "write_manifest", ArtifactPath(name, version), ArtifactDoc(artifact)),
            artifact)

\* push_artifact, the end: the manifest is written, then the version list
\* with the new version appended.
PushWritten(up, artifact, versions, name, version) ==
    WithOut(create_file(create_file(up, "write_manifest", ArtifactPath(name, version),
                                    ArtifactDoc(artifact)), "write_versions", VersionsPath(name),
                        VersionsDoc(Append(versions, version))),
            artifact)

\* push_artifact after the digests: signature, then uploads.
PushSigned(dg, versions, alg, name, version, files) ==
    IF ~Running(dg) THEN dg
    ELSE PushWritten(UploadFiles(dg, name, version, files, 1),
                     SignedArtifact(alg, version, dg.out), versions, name, version)

\* push_artifact without its test that the version is new.
PushUnchecked(iv, alg, name, version, files) ==
    IF ~Running(iv) THEN iv
    ELSE IF ~alg.ok THEN Stop(iv, alg.err, "config")
    ELSE PushSigned(DigestFiles([iv EXCEPT !.out = <<>>], files, 1, alg.checksum_method),
                    iv.out, alg, name, version, files)

\* push_artifact after init_artifact: the version must be new and the
\* configuration must hold publish parameters.
PushChecked(iv, alg, name, version, files) ==
    IF ~Running(iv) THEN iv
    ELSE IF version \in Range(iv.out)
         THEN Stop(iv, "ArtifactVersionAlreadyExists", "check")
    ELSE IF ~alg.ok THEN Stop(iv, alg.err, "config")
    ELSE PushSigned(DigestFiles([iv EXCEPT !.out = <<>>], files, 1, alg.checksum_method),
                    iv.out, alg, name, version, files)

\* Repository::push_artifact: m.out becomes the manifest.
push_artifact(m, name, version, files) ==
    PushChecked(init_artifact(m, name), get_publish_algorithm(m.cfg), name, version, files)

(***************************************************************************)
(* file_utils::mv: rename, with a copy when rename fails with              *)
(* ErrorKind::Other.  Moves file `name` of directory src into dst; the     *)
(* result holds both directories and the error, if any.                    *)
(***************************************************************************)
mv(f, stage, i, src, dst, name) ==
    IF Errs(f, stage, i)
    THEN [st |-> "IoError", src |-> src, dst |-> dst, hit |-> TRUE]
    ELSE IF ~Has(src, name)
    THEN [st |-> "IoError", src |-> src, dst |-> dst, hit |-> FALSE]
    ELSE IF Copies(f, stage, i)
    THEN [st |-> "run", src |-> src, dst |-> Put(dst, name, src[name]), hit |-> TRUE]
    ELSE [st |-> "run", src |-> Del(src, name), dst |-> Put(dst, name, src[name]),
          hit |-> FALSE]

\* copy_to_tmpdir without its comparison of digests.
NoCheckDigest(got, file) == got

\* copy_to_tmpdir, after the download: the digest of the file received is
\* compared with the manifest's.
CheckDigest(got, file) ==
    IF digest_file(got.tmp[file.name]) # file.checksum
    THEN Stop(got, "WrongFileChecksum", "checksum")
    ELSE got

\* Repository::copy_to_tmpdir: download one file into the temporary
\* directory and compare its digest with the manifest's.
copy_to_tmpdir(m, i, name, version, file) ==
    IF ~Running(m) THEN m
    ELSE IF Kills(m.f, "download", i) THEN Trip(m, "killed", "download")
    ELSE IF Errs(m.f, "download", i) THEN Trip(m, "BackendOther", "download")
    ELSE IF ~Has(m.store, ArtifactFilePath(name, version, file.name))
         THEN Stop(m, "ResourceNotFound", "download")
    ELSE CheckDigest(
             [m EXCEPT !.tmp = Put(@, file.name,
                                   m.store[ArtifactFilePath(name, version, file.name)])],
             file)

RECURSIVE CopyFiles(_, _, _, _, _)
CopyFiles(m, name, version, files, i) ==
    IF ~Running(m) \/ i > Len(files) THEN m
    ELSE CopyFiles(copy_to_tmpdir(m, i, name, version, files[i]), name, version, files, i + 1)

\* pull_artifact without its "check file presence".
SkipPresence(m, files, i, overwrite) == m

\* pull_artifact, "check file presence": an existing destination file is an
\* error, or is deleted when overwrite_dest is set.
RECURSIVE CheckPresence(_, _, _, _)
CheckPresence(m, files, i, overwrite) ==
    IF ~Running(m) \/ i > Len(files) THEN m
    ELSE IF ~Has(m.dir, files[i].name) THEN CheckPresence(m, files, i + 1, overwrite)
    ELSE IF ~overwrite THEN Stop(m, "DestinationFileAlreadyExists", "presence")
    ELSE IF Kills(m.f, "remove", i) THEN Trip(m, "killed", "remove")
    ELSE IF Errs(m.f, "remove", i) THEN Trip(m, "IoError", "remove")
    ELSE CheckPresence([m EXCEPT !.dir = Del(@, files[i].name)], files, i + 1, overwrite)

\* The machine after one mv from m.tmp to m.dir with result r.
Moved(m, r, stage) ==
    IF r.st # "run"
    THEN Stop([m EXCEPT !.tmp = r.src, !.dir = r.dst, !.hit = @ \/ r.hit], r.st, stage)
    ELSE [m EXCEPT !.tmp = r.src, !.dir = r.dst, !.hit = @ \/ r.hit]

\* pull_artifact, last loop: each temporary file is moved to the destination.
RECURSIVE MoveFiles(_, _, _)
MoveFiles(m, files, i) ==
    IF ~Running(m) \/ i > Len(files) THEN m
    ELSE IF Kills(m.f, "mv", i) THEN Trip(m, "killed", "mv")
    ELSE MoveFiles(Moved(m, mv(m.f, "mv", i, m.tmp, m.dir, files[i].name), "mv"), files, i + 1)

\* tempfile::tempdir_in
tempdir_in(m, stage) ==
    IF ~Running(m) THEN m
    ELSE IF Kills(m.f, stage, 1) THEN Trip(m, "killed", stage)
    ELSE IF Errs(m.f, stage, 1) THEN Trip(m, "IoError", stage)
    ELSE [m EXCEPT !.tmp = EmptyDir]

\* pull_artifact, its return: the temporary directory is removed on every
\* return; a process killed after it was created leaves it.
PullDone(r, artifact) ==
    IF r.st = "killed"
    THEN IF r.stage = "tempdir" THEN r ELSE [r EXCEPT !.orph = @ + 1]
    ELSE [r EXCEPT !.tmp = EmptyDir, !.out = IF Running(r) THEN artifact ELSE @]

\* pull_artifact after get_artifact: download, presence check, moves.
PullInto(g, name, version, overwrite) ==
    IF ~Running(g) THEN g
    ELSE PullDone(
             MoveFiles(
                 CheckPresence(
                     CopyFiles(tempdir_in(g, "tempdir"), name, version, g.out.files, 1),
                     g.out.files, 1, overwrite),
                 g.out.files, 1),
             g.out)

\* Repository::pull_artifact into m.dir: m.out becomes the manifest.
pull_artifact(m, name, version, overwrite) ==
    PullInto(get_artifact(m, name, version), name, version, overwrite)

(***************************************************************************)
(* Sync engine (binrep.rs).                                                *)
(***************************************************************************)
LockPath(name) == "." \o name \o ".binrep-sync.lock"

MetaPath(name) == "." \o name \o "_sync.sane"

\* last_version, after the list: sort, then the last element.
LastOf(matching_versions) ==
    IF matching_versions = <<>> THEN <<>>
    ELSE <<matching_versions[Len(matching_versions)]>>

\* last_version on the list read.
LastMatching(l, req) ==
    IF ~Running(l) THEN l
    ELSE [l EXCEPT !.out = LastOf(SortVersions(SelectSeq(l.out, LAMBDA v : Matches(req, v))))]

\* Binrep::last_version: m.out becomes <<v>> for the greatest matching
\* version v, or <<>> when no version matches.
last_version(m, name, req) == LastMatching(list_artifact_versions(m, name), req)

\* create_and_lock, second statement: try_lock_exclusive on the file created.
TryLock(created) ==
    IF Kills(created.f, "lock", 1) THEN Trip(created, "killed", "lock")
    ELSE IF Errs(created.f, "lock", 1) THEN Trip(created, "LockHeld", "lock")
    ELSE created

\* LockFile::create_and_lock as one process sees it: the file is created
\* (or truncated), then locked; a lock held by another process surfaces as
\* an error and the file stays.
create_and_lock(m, path) ==
    IF ~Running(m) THEN m
    ELSE IF Kills(m.f, "lock_create", 1) THEN Trip(m, "killed", "lock_create")
    ELSE IF Errs(m.f, "lock_create", 1) THEN Trip(m, "IoError", "lock_create")
    ELSE TryLock([m EXCEPT !.dir = Put(@, path, Blob(""))])

\* Drop for LockFile: unlock, then remove the file; errors are ignored.  A
\* killed process drops nothing.
DropLockFile(m, path) ==
    IF m.st = "killed" THEN m ELSE [m EXCEPT !.dir = Del(@, path)]

\* sync::read_meta: m.out becomes <<meta>> or <<>> when there is none.
read_meta(m, name) ==
    IF ~Running(m) THEN m
    ELSE IF Kills(m.f, "read_meta", 1) THEN Trip(m, "killed", "read_meta")
    ELSE IF Errs(m.f, "read_meta", 1) THEN Trip(m, "IoError", "read_meta")
    ELSE IF ~Has(m.dir, MetaPath(name)) THEN [m EXCEPT !.out = <<>>]
    ELSE IF m.dir[MetaPath(name)].kind # "syncmeta" THEN Stop(m, "ParseError", "read_meta")
    ELSE [m EXCEPT !.out = <<m.dir[MetaPath(name)]>>]

\* sync::write_meta (write_sane_to_file): File::create truncates the file,
\* write_all fills it.  A failure of write_all leaves it cut short.
write_meta(m, name, artifact) ==
    IF ~Running(m) THEN m
    ELSE IF Kills(m.f, "write_meta", 1) THEN Trip(m, "killed", "write_meta")
    ELSE IF Errs(m.f, "write_meta", 1) THEN Trip(m, "IoError", "write_meta")
    ELSE IF Kills(m.f, "write_meta", 2)
         THEN Trip([m EXCEPT !.dir = Put(@, MetaPath(name), TornDoc)], "killed", "write_all")
    ELSE IF Errs(m.f, "write_meta", 2)
         THEN Trip([m EXCEPT !.dir = Put(@, MetaPath(name), TornDoc)], "IoError", "write_all")
    ELSE [m EXCEPT !.dir = Put(@, MetaPath(name), SyncMetaDoc(artifact))]

\* The removal of the previous files when a missing file is an error.
RECURSIVE RemoveExistingStrict(_, _, _)
RemoveExistingStrict(m, files, i) ==
    IF ~Running(m) \/ i > Len(files) THEN m
    ELSE IF Kills(m.f, "delete", i) THEN Trip(m, "killed", "delete")
    ELSE IF ~Has(m.dir, files[i].name) THEN Stop(m, "IoError", "delete")
    ELSE RemoveExistingStrict([m EXCEPT !.dir = Del(@, files[i].name)], files, i + 1)

\* sync, "remove existing files if any": the files of the previous manifest
\* are deleted from the destination; every error is ignored.
RECURSIVE RemoveExisting(_, _, _)
RemoveExisting(m, files, i) ==
    IF ~Running(m) \/ i > Len(files) THEN m
    ELSE IF Kills(m.f, "delete", i) THEN Trip(m, "killed", "delete")
    ELSE IF ~Has(m.dir, files[i].name) THEN RemoveExisting(m, files, i + 1)
    ELSE IF Errs(m.f, "delete", i)
         THEN RemoveExisting([m EXCEPT !.hit = TRUE], files, i + 1)
         ELSE RemoveExisting([m EXCEPT !.dir = Del(@, files[i].name)], files, i + 1)

\* sync, "move temp file to final destination".
RECURSIVE MoveToFinal(_, _, _)
MoveToFinal(m, files, i) ==
    IF ~Running(m) \/ i > Len(files) THEN m
    ELSE IF Kills(m.f, "move", i) THEN Trip(m, "killed", "move")
    ELSE MoveToFinal(Moved(m, mv(m.f, "move", i, m.tmp, m.dir, files[i].name), "move"),
                     files, i + 1)

\* The files sync deletes before it moves the new ones in.
PreviousFiles(meta) == IF meta = <<>> THEN <<>> ELSE meta[1].artifact.files

\* sync after the pull into temp_sync_dir: t is the machine before the
\* pull, inner the pull's; m.tmp holds temp_sync_dir from here on.
Pulled(t, inner) ==
    [t EXCEPT !.st = inner.st, !.stage = inner.stage, !.tmp = inner.dir, !.hit = inner.hit]

\* The process may die between write_meta and the return.
SyncReturn(written) ==
    IF Running(written) /\ Kills(written.f, "return", 1) THEN Trip(written, "killed", "return")
    ELSE written

\* The update branch, its return: temp_sync_dir is removed on every return;
\* a killed process leaves it.
SyncDone(done, artifact) ==
    IF done.st = "killed" THEN [done EXCEPT !.orph = @ + 1]
    ELSE [done EXCEPT !.tmp = EmptyDir,
                      !.out = IF Running(done)
                              THEN [artifact |-> artifact, status |-> "Updated"]
                              ELSE @]

\* The update branch after the pull: previous files removed, new files
\* moved in, SyncMetadata written.
SyncReplace(t, inner, name, meta) ==
    SyncDone(
        SyncReturn(
            write_meta(
                MoveToFinal(RemoveExisting(Pulled(t, inner), PreviousFiles(meta), 1),
                            inner.out.files, 1),
                name, inner.out)),
        inner.out)

\* The update branch after tempdir_in: the pull into temp_sync_dir.
SyncInstall(t, name, latest, meta) ==
    IF ~Running(t) THEN t
    ELSE SyncReplace(t,
                     pull_artifact([t EXCEPT !.dir = EmptyDir, !.orph = 0], name, latest, TRUE),
                     name, meta)

\* The update branch of sync, from tempdir_in to write_meta.
SyncUpdate(m, name, latest, meta) ==
    SyncInstall(tempdir_in(m, "sync_tempdir"), name, latest, meta)

\* sync without the comparison of the recorded version with the latest.
AlwaysUpdate(rm, name, latest) ==
    IF ~Running(rm) THEN rm ELSE SyncUpdate(rm, name, latest, rm.out)

\* sync after read_meta: nothing to do when the SyncMetadata records the
\* latest version.
SyncWithMeta(rm, name, latest) ==
    IF ~Running(rm) THEN rm
    ELSE IF rm.out # <<>> /\ rm.out[1].artifact.version = latest
         THEN [rm EXCEPT !.out = [artifact |-> rm.out[1].artifact, status |-> "UpToDate"]]
         ELSE SyncUpdate(rm, name, latest, rm.out)

\* sync that removes the lock file on every return, its own or not.
SyncLockedDrop(lk, name, latest) ==
    IF lk.st = "killed" THEN lk
    ELSE IF ~Running(lk) THEN [lk EXCEPT !.dir = Del(@, LockPath(name))]
    ELSE DropLockFile(SyncWithMeta(read_meta(lk, name), name, latest),
                      LockPath(name))

\* sync while it holds the LockFile, which every return drops.
SyncLocked(lk, name, latest) ==
    IF ~Running(lk) THEN lk
    ELSE DropLockFile(SyncWithMeta(read_meta(lk, name), name, latest),
                      LockPath(name))

\* sync after last_version.
SyncLatest(lv, name) ==
    IF ~Running(lv) THEN lv
    ELSE IF lv.out = <<>> THEN Stop(lv, "NoVersionMatching", "last_version")
    ELSE SyncLocked(create_and_lock(lv, LockPath(name)), name, lv.out[1])

\* Binrep::sync: m.out becomes the SyncResult.
sync(m, name, req) == SyncLatest(last_version(m, name, req), name)

(***************************************************************************)
(* The lock file, one action per system call (file_utils.rs, LockFile).    *)
(* The lock path names an inode or nothing; File::create opens the inode   *)
(* the path names, or links a new one; flock locks an inode, not a path;   *)
(* remove_file unlinks the path whatever inode it names.                   *)
(***************************************************************************)
Procs == 1..NumProcs

Inodes == 1..(NumProcs + 1)

FreeInodes == {i \in Inodes : linked # i /\ \A p \in Procs : fd[p] # i}

lockVars == <<lpc, fd, linked, flock, syncs, ex>>

repoVars == <<store, dest, orphans, tampers, pushed, last, pubs>>

\* create_and_lock, first statement: File::create(&lock_file_path).
FileCreate(p) ==
    /\ lpc[p] = "idle"
    /\ IF linked # 0
       THEN /\ fd' = [fd EXCEPT ![p] = linked]
            /\ UNCHANGED linked
       ELSE /\ linked' = CHOOSE i \in FreeInodes : \A j \in FreeInodes : i <= j
            /\ fd' = [fd EXCEPT ![p] = linked']
    /\ lpc' = [lpc EXCEPT ![p] = "created"]
    /\ UNCHANGED <<flock, syncs, ex, repoVars>>

\* create_and_lock, second statement: lock_file.try_lock_exclusive()?.  On
\* contention the error is returned and the File is closed; no LockFile was
\* built, so nothing is removed.
TryLockExclusive(p) ==
    /\ lpc[p] = "created"
    /\ IF flock[fd[p]] = 0
       THEN /\ flock' = [flock EXCEPT ![fd[p]] = p]
            /\ lpc' = [lpc EXCEPT ![p] = "locked"]
            /\ UNCHANGED fd
       ELSE /\ lpc' = [lpc EXCEPT ![p] = "idle"]
            /\ fd' = [fd EXCEPT ![p] = 0]
            /\ UNCHANGED flock
    /\ UNCHANGED <<linked, syncs, ex, repoVars>>

\* Drop, first statement: self.lock_file.unlock().  The sync body ran while
\* the process was "locked".
Unlock(p) ==
    /\ lpc[p] = "locked"
    /\ flock' = [flock EXCEPT ![fd[p]] = 0]
    /\ lpc' = [lpc EXCEPT ![p] = "unlocked"]
    /\ UNCHANGED <<fd, linked, syncs, ex, repoVars>>

\* Drop, second statement: std::fs::remove_file(&self.lock_file_path); the
\* File is closed after it.
RemoveLockFile(p) ==
    /\ lpc[p] = "unlocked"
    /\ linked' = 0
    /\ fd' = [fd EXCEPT ![p] = 0]
    /\ lpc' = [lpc EXCEPT ![p] = "idle"]
    /\ UNCHANGED <<flock, syncs, ex, repoVars>>

\* A killed process whose lock outlives it.
KillKeepsLock(p) ==
    /\ lpc[p] # "idle"
    /\ fd' = [fd EXCEPT ![p] = 0]
    /\ lpc' = [lpc EXCEPT ![p] = "idle"]
    /\ UNCHANGED <<flock, linked, syncs, ex, repoVars>>

\* The process is killed: the kernel closes its file and releases its lock;
\* the lock file stays.
KillProcess(p) ==
    /\ lpc[p] # "idle"
    /\ flock' = [i \in Inodes |-> IF flock[i] = p THEN 0 ELSE flock[i]]
    /\ fd' = [fd EXCEPT ![p] = 0]
    /\ lpc' = [lpc EXCEPT ![p] = "idle"]
    /\ UNCHANGED <<linked, syncs, ex, repoVars>>

\* extexec before it is called.  pc is the position of the caller; script
\* the writes the child makes, pos how many it has made, exited whether it
\* has exited; held whether a process the child started holds the write
\* ends of the pipes ("open"), has closed them, or there is none; pipe the bytes written and not yet read; buf,
\* ended and mirror the line buffer of each capture thread, whether the
\* thread has ended, and what it copied to the caller's own stream; chan
\* the lines sent on the channel; out the output_lines returned.
Streams == {"Out", "Err"}

ExIdle ==
    [pc |-> "idle", script |-> <<>>, tee |-> FALSE, pos |-> 0, exited |-> FALSE,
     held |-> "none",
     pipe |-> [s \in Streams |-> <<>>],
     buf |-> [s \in Streams |-> ""],
     ended |-> [s \in Streams |-> FALSE],
     mirror |-> [s \in Streams |-> ""],
     chan |-> <<>>, out |-> <<>>]

\* The processes that sync one destination concurrently, and one that is
\* not inside sync: latest is <<v>> once last_version returned v.
Syncers == {1, 2}

SyncIdle == [pc |-> "idle", latest |-> <<>>]

LockInit ==
    /\ lpc = [p \in Procs |-> "idle"]
    /\ fd = [p \in Procs |-> 0]
    /\ linked = 0
    /\ flock = [i \in Inodes |-> 0]
    /\ syncs = [p \in Syncers |-> SyncIdle]
    /\ ex = ExIdle

NoCall ==
    [op |-> "none", arg |-> [none |-> TRUE], st |-> "", stage |-> "", out |-> <<>>]

\* The publishers that push concurrently, and a publisher that has not
\* started: pc is the backend call it is about to make, versions and names
\* are the lists it read, files the local files it pushes, out the file
\* entries it digested, i the index of the next upload, st what it returned.
Publishers == {1, 2}

PubIdle ==
    [pc |-> "idle", versions |-> <<>>, names |-> <<>>, files |-> <<>>, out |-> <<>>,
     i |-> 1, st |-> ""]

RepoInit ==
    /\ pubs = [p \in Publishers |-> PubIdle]
    /\ store = EmptyDir
    /\ dest = EmptyDir
    /\ orphans = 0
    /\ tampers = 0
    /\ pushed = EmptyDir
    /\ last = NoCall

Init == LockInit /\ RepoInit

LockNext ==
    \E p \in Procs :
        \/ FileCreate(p)
        \/ TryLockExclusive(p)
        \/ Unlock(p)
        \/ RemoveLockFile(p)
        \/ KillProcess(p)

\* Sync processes racing for the lock file of one (artifact, directory).
SpecLock == Init /\ [][LockNext]_vars

(***************************************************************************)
(* Calls.  Each call of the API is one action; it records in `last` what   *)
(* was called and what came back.  A call whose fault names a step it     *)
(* never reaches is the call without fault, and is not taken.             *)
(***************************************************************************)
LocalFile(name, data) == [name |-> name, data |-> data]

\* The record of a call: what was called and what it returned; for a killed
\* process, the stage at which it died.
Call(op, arg, r) ==
    [op |-> op, arg |-> arg,
     st |-> IF r.st = "run" THEN "Ok" ELSE r.st,
     stage |-> IF r.st = "killed" THEN r.stage ELSE "",
     out |-> IF r.st = "run" THEN r.out ELSE <<>>]

\* What a fault may be at each stage of a handler.
StageFaults(kinds, stages, idxs) ==
    {Fault(k, s, i) : k \in kinds, s \in stages, i \in idxs}

(***************************************************************************)
(* The sync specification: versions are published one at a time, each with *)
(* its own file list, and one destination directory is synced again and    *)
(* again, under any requirement and any fault.                             *)
(***************************************************************************)
SyncVersions == {V100a, V120, V200}

\* The local files published as each version.
FilesOf(v) ==
    CASE v = V100a -> <<LocalFile("x.bin", "p")>>
      [] v = V120 -> <<LocalFile("x.bin", "q"), LocalFile("y.bin", "p")>>
      [] v = V200 -> <<LocalFile("y.bin", "q")>>

SyncReqs == {STAR, Tilde1, GeAlph}

\* The steps of sync at which a fault may strike, and the files it may strike.
SyncSteps ==
    StageFaults({"err", "kill"},
                {"read_versions", "lock_create", "lock", "read_meta",
                 "sync_tempdir", "read_manifest", "tempdir"}, {1})
        \cup StageFaults({"err", "kill"}, {"download", "delete", "move", "mv"}, {1, 2})
        \cup StageFaults({"copy"}, {"move", "mv"}, {1, 2})
        \cup StageFaults({"err", "kill"}, {"write_meta"}, {1, 2})
        \cup StageFaults({"kill"}, {"return"}, {1})

\* A system call of sync fails, or a rename falls back to a copy.
SyncErrors == {f \in SyncSteps : f.kind # "kill"}

\* The process running sync is killed.
SyncKills == {f \in SyncSteps : f.kind = "kill"}

Publish(v) ==
    \E r \in {push_artifact(Machine(store, EmptyDir, 0, TestConfig, NoFault),
                            ArtifactName, v, FilesOf(v))} :
        /\ store' = r.store
        /\ pushed' = IF Running(r) /\ ~Has(pushed, v) THEN Put(pushed, v, r.out) ELSE pushed
        /\ last' = Call("push", [name |-> ArtifactName, version |-> v], r)
        /\ UNCHANGED <<dest, orphans, tampers, lockVars, pubs>>

Sync(req, f) ==
    \E r \in {sync(Machine(store, dest, orphans, TestConfig, f), ArtifactName, req)} :
        /\ r.hit = (f # NoFault)
        /\ r.orph <= MaxOrphans
        /\ dest' = r.dir
        /\ orphans' = r.orph
        /\ last' = Call("sync", [name |-> ArtifactName, req |-> req], r)
        /\ UNCHANGED <<store, tampers, pushed, lockVars, pubs>>

\* Publications and syncs whose system calls may fail.
SyncNextStep ==
    \/ \E v \in SyncVersions : Publish(v)
    \/ \E req \in SyncReqs, f \in {NoFault} \cup SyncErrors : Sync(req, f)

SpecSync == Init /\ [][SyncNextStep]_vars

\* Publications and syncs whose process may be killed.
CrashNextStep ==
    \/ \E v \in SyncVersions : Publish(v)
    \/ \E req \in SyncReqs, f \in {NoFault} \cup SyncKills : Sync(req, f)

SpecCrash == Init /\ [][CrashNextStep]_vars

(***************************************************************************)
(* Concurrent syncs.  Each process runs sync on the same destination with  *)
(* the same requirement, in two steps: last_version, which reads the       *)
(* backend before the lock is taken, then everything from create_and_lock  *)
(* to the drop of the LockFile, which no other process interleaves with.   *)
(* Versions are published in any order in between.                         *)
(***************************************************************************)
RaceReq == STAR

\* sync up to last_version: the process keeps the version it aims at, or
\* returns the error.
SyncLastVersion(p) ==
    /\ syncs[p].pc = "idle"
    /\ \E r \in {last_version(Machine(store, dest, orphans, TestConfig, NoFault),
                                ArtifactName, RaceReq)} :
           IF Running(r) /\ r.out # <<>>
           THEN /\ syncs' = [syncs EXCEPT ![p] = [pc |-> "latest", latest |-> r.out]]
                /\ UNCHANGED last
           ELSE /\ last' = Call("sync", [name |-> ArtifactName, req |-> RaceReq],
                                SyncLatest(r, ArtifactName))
                /\ UNCHANGED syncs
    /\ UNCHANGED <<store, dest, orphans, tampers, pushed, lpc, fd, linked, flock, pubs, ex>>

\* sync from create_and_lock to its return, for the version read before.
SyncHoldingLock(p) ==
    /\ syncs[p].pc = "latest"
    /\ \E r \in {SyncLocked(create_and_lock(Machine(store, dest, orphans, TestConfig, NoFault),
                                             LockPath(ArtifactName)),
                              ArtifactName, syncs[p].latest[1])} :
           /\ dest' = r.dir
           /\ orphans' = r.orph
           /\ last' = Call("sync", [name |-> ArtifactName, req |-> RaceReq], r)
    /\ syncs' = [syncs EXCEPT ![p] = SyncIdle]
    /\ UNCHANGED <<store, tampers, pushed, lpc, fd, linked, flock, pubs, ex>>

RaceNextStep ==
    \/ \E v \in SyncVersions : Publish(v)
    \/ \E p \in Syncers : SyncLastVersion(p)
    \/ \E p \in Syncers : SyncHoldingLock(p)

SpecRace == Init /\ [][RaceNextStep]_vars

(***************************************************************************)
(* extexec (extended_exec.rs).  The caller sends the Cmd line, spawns the  *)
(* child with both streams piped and starts one capture thread per stream; *)
(* it waits for the child, then collects the channel until every sender is *)
(* dropped, which is when both threads have ended.  A thread reads its     *)
(* pipe byte by byte and ends at end of file, which a pipe gives once it   *)
(* is empty and no process holds its write end.  One action is one write   *)
(* of the child, one byte read by a thread, or one step of the caller.     *)
(***************************************************************************)
Line(line_type, line) == [line_type |-> line_type, line |-> line]

\* The first line sent: the Debug text of the command.
CmdLine == Line("Cmd", "cmd")

Write(stream, byte) == [stream |-> stream, byte |-> byte]

\* What the child writes, byte by byte: nothing; a line; a line without
\* its newline; an empty line; a line on each stream; the three lines of
\* the test stderrnout; two lines whose bytes alternate.
Scripts ==
    {<<>>,
     <<Write("Out", "a"), Write("Out", "\n")>>,
     <<Write("Err", "a"), Write("Err", "\n"), Write("Err", "b")>>,
     <<Write("Out", "\n")>>,
     <<Write("Out", "a"), Write("Out", "\n"), Write("Err", "b"), Write("Err", "\n")>>,
     <<Write("Out", "f"), Write("Out", "\n"), Write("Err", "c"), Write("Err", "\n"),
       Write("Out", "b"), Write("Out", "\n")>>,
     <<Write("Out", "a"), Write("Err", "b"), Write("Out", "\n"), Write("Err", "\n")>>}

\* Everything but ex is left as it is.
OnlyEx ==
    UNCHANGED <<store, dest, orphans, tampers, pushed, last, lpc, fd, linked, flock, pubs,
                syncs>>

\* extexec up to the two capture_lines calls: the Cmd line is on the
\* channel, the child runs; held tells whether the child starts a process
\* that inherits its streams.
Spawn(script, tee, held) ==
    /\ ex.pc = "idle"
    /\ ex' = [ExIdle EXCEPT !.pc = "spawned", !.script = script, !.tee = tee,
                            !.held = IF held THEN "open" ELSE "none",
                            !.chan = <<CmdLine>>]
    /\ OnlyEx

\* spawn()? fails: extexec returns the error.
SpawnFails ==
    /\ ex.pc = "idle"
    /\ ex' = [ExIdle EXCEPT !.pc = "failed"]
    /\ OnlyEx

\* The child writes the next byte of its script.
ChildWrite ==
    /\ ex.pc = "spawned" /\ ~ex.exited /\ ex.pos < Len(ex.script)
    /\ ex' = [ex EXCEPT !.pos = @ + 1,
                        !.pipe[ex.script[ex.pos + 1].stream]
                            = Append(@, ex.script[ex.pos + 1].byte)]
    /\ OnlyEx

\* The child exits after its last write.
ChildExit ==
    /\ ex.pc = "spawned" /\ ~ex.exited /\ ex.pos = Len(ex.script)
    /\ ex' = [ex EXCEPT !.exited = TRUE]
    /\ OnlyEx

\* The process the child started exits, or closes the streams it inherited.
HolderExit ==
    /\ ex.pc \in {"spawned", "waited"} /\ ex.held = "open"
    /\ ex' = [ex EXCEPT !.held = "closed"]
    /\ OnlyEx

\* capture_lines without the lines of its last statement.
EndOfFileDrop(s) == [ex EXCEPT !.ended[s] = TRUE, !.buf[s] = ""]

\* capture_lines, the loop body: the byte is copied to the duplicate
\* stream if there is one; a newline sends the buffer as a line, any other
\* byte is pushed on the buffer.
Captured(s, byte) ==
    [ex EXCEPT !.pipe[s] = Tail(@),
               !.mirror[s] = IF ex.tee THEN @ \o byte ELSE @,
               !.buf[s] = IF byte = "\n" THEN "" ELSE @ \o byte,
               !.chan = IF byte = "\n" THEN Append(@, Line(s, ex.buf[s])) ELSE @]

\* capture_lines after the loop: the bytes that remain are sent as a last
\* line, and the thread ends, dropping its sender.
EndOfFile(s) ==
    [ex EXCEPT !.ended[s] = TRUE, !.buf[s] = "",
               !.chan = IF ex.buf[s] # "" THEN Append(@, Line(s, ex.buf[s])) ELSE @]

\* The thread of stream s reads one byte.
ReadByte(s) ==
    /\ ex.pc \in {"spawned", "waited"} /\ ~ex.ended[s]
    /\ ex.pipe[s] # <<>>
    /\ ex' = Captured(s, Head(ex.pipe[s]))
    /\ OnlyEx

\* The thread of stream s reads the end of file.
ReadEof(s) ==
    /\ ex.pc \in {"spawned", "waited"} /\ ~ex.ended[s]
    /\ ex.pipe[s] = <<>> /\ ex.exited /\ ex.held # "open"
    /\ ex' = EndOfFile(s)
    /\ OnlyEx

\* child.wait() returns.
Wait ==
    /\ ex.pc = "spawned" /\ ex.exited
    /\ ex' = [ex EXCEPT !.pc = "waited"]
    /\ OnlyEx

\* line_receiver.iter().collect() returns: every sender was dropped.
Collect ==
    /\ ex.pc = "waited"
    /\ \A s \in Streams : ex.ended[s]
    /\ ex' = [ex EXCEPT !.pc = "done", !.out = ex.chan]
    /\ OnlyEx

ExtexecNextStep ==
    \/ \E script \in Scripts, tee \in BOOLEAN, held \in BOOLEAN : Spawn(script, tee, held)
    \/ SpawnFails
    \/ ChildWrite
    \/ ChildExit
    \/ HolderExit
    \/ \E s \in Streams : ReadByte(s)
    \/ \E s \in Streams : ReadEof(s)
    \/ Wait
    \/ Collect

SpecExtexec == Init /\ [][ExtexecNextStep]_vars

\* The same, where the child, the threads and the caller take every step
\* they can take; a process the child started may never exit.
SpecExtexecFair ==
    /\ SpecExtexec
    /\ WF_vars(ChildWrite) /\ WF_vars(ChildExit)
    /\ \A s \in Streams : WF_vars(ReadByte(s)) /\ WF_vars(ReadEof(s))
    /\ WF_vars(Wait) /\ WF_vars(Collect)

(***************************************************************************)
(* The repository specifications: two versions are pushed, each with any   *)
(* of a few file lists, read back with get and pulled into one destination *)
(* directory.  In SpecRepo a system call of pull may fail; in SpecTamper   *)
(* somebody who can write to the backend, but does not hold the key,       *)
(* rewrites a payload or a manifest.                                       *)
(***************************************************************************)
RepoVersions == {V100, V120}

\* Lists of local files, each file given by the last component of its path
\* and its content: two files; one file; two paths with the same last
\* component, with different and with equal contents; a file named as the
\* manifest is.
FileLists ==
    {<<LocalFile("a.bin", "p"), LocalFile("b.bin", "q")>>,
     <<LocalFile("a.bin", "q")>>,
     <<LocalFile("a.bin", "p"), LocalFile("a.bin", "q")>>,
     <<LocalFile("a.bin", "p"), LocalFile("a.bin", "p")>>,
     <<LocalFile("versions.sane", "p")>>}

\* The steps of pull_artifact at which a system call may fail.
PullErrors ==
    StageFaults({"err"}, {"read_manifest", "tempdir"}, {1})
        \cup StageFaults({"err"}, {"download", "remove", "mv"}, {1, 2})
        \cup StageFaults({"copy"}, {"mv"}, {1, 2})

\* What a manifest becomes in the hands of somebody without the key.
TamperKinds == {"signature", "checksum", "method", "key_id", "base64"}

Tampered(artifact, kind) ==
    CASE kind = "signature" -> [artifact EXCEPT !.signature.signature = "forged"]
      [] kind = "checksum" -> [artifact EXCEPT !.files[1].checksum = "#z;"]
      [] kind = "method" -> [artifact EXCEPT !.signature.signature_method = "HMAC_SHA256"]
      [] kind = "key_id" -> [artifact EXCEPT !.signature.key_id = "other"]
      [] kind = "base64" -> [artifact EXCEPT !.signature.signature = NotBase64]

Push(v, files) ==
    \E r \in {push_artifact(Machine(store, EmptyDir, 0, TestConfig, NoFault),
                            ArtifactName, v, files)} :
        /\ store' = r.store
        /\ pushed' = IF Running(r) /\ ~Has(pushed, v) THEN Put(pushed, v, r.out) ELSE pushed
        /\ last' = Call("push", [name |-> ArtifactName, version |-> v, files |-> files], r)
        /\ UNCHANGED <<dest, orphans, tampers, lockVars, pubs>>

Get(v) ==
    \E r \in {get_artifact(Machine(store, EmptyDir, 0, TestConfig, NoFault),
                           ArtifactName, v)} :
        /\ last' = Call("get", [name |-> ArtifactName, version |-> v], r)
        /\ UNCHANGED <<store, dest, orphans, tampers, pushed, lockVars, pubs>>

Pull(v, overwrite, f) ==
    \E r \in {pull_artifact(Machine(store, dest, orphans, TestConfig, f),
                            ArtifactName, v, overwrite)} :
        /\ r.hit = (f # NoFault)
        /\ dest' = r.dir
        /\ last' = Call("pull", [name |-> ArtifactName, version |-> v,
                                 overwrite |-> overwrite], r)
        /\ UNCHANGED <<store, orphans, tampers, pushed, lockVars, pubs>>

\* The blob of the i-th file of a pushed version is rewritten.
TamperPayload(v, i) ==
    /\ tampers < MaxTampers
    /\ Has(pushed, v)
    /\ i \in DOMAIN pushed[v].files
    /\ store' = Put(store, ArtifactFilePath(ArtifactName, v, pushed[v].files[i].name),
                    Blob("z"))
    /\ tampers' = tampers + 1
    /\ last' = NoCall
    /\ UNCHANGED <<dest, orphans, pushed, lockVars, pubs>>

\* The manifest of a pushed version is rewritten.
TamperManifest(v, kind) ==
    /\ tampers < MaxTampers
    /\ Has(pushed, v)
    /\ pushed[v].files # <<>>
    /\ store' = Put(store, ArtifactPath(ArtifactName, v),
                    ArtifactDoc(Tampered(pushed[v], kind)))
    /\ tampers' = tampers + 1
    /\ last' = NoCall
    /\ UNCHANGED <<dest, orphans, pushed, lockVars, pubs>>

\* The manifest of one pushed version is stored in the place of another's.
ReplayManifest(v, w) ==
    /\ tampers < MaxTampers
    /\ v # w
    /\ Has(pushed, v) /\ Has(pushed, w)
    /\ store' = Put(store, ArtifactPath(ArtifactName, v), ArtifactDoc(pushed[w]))
    /\ tampers' = tampers + 1
    /\ last' = NoCall
    /\ UNCHANGED <<dest, orphans, pushed, lockVars, pubs>>

\* The blob of the i-th file of a pushed version is removed.
DropPayload(v, i) ==
    /\ tampers < MaxTampers
    /\ Has(pushed, v)
    /\ i \in DOMAIN pushed[v].files
    /\ Has(store, ArtifactFilePath(ArtifactName, v, pushed[v].files[i].name))
    /\ store' = Del(store, ArtifactFilePath(ArtifactName, v, pushed[v].files[i].name))
    /\ tampers' = tampers + 1
    /\ last' = NoCall
    /\ UNCHANGED <<dest, orphans, pushed, lockVars, pubs>>

RepoNextStep ==
    \/ \E v \in RepoVersions, files \in FileLists : Push(v, files)
    \/ \E v \in RepoVersions : Get(v)
    \/ \E v \in RepoVersions, overwrite \in BOOLEAN, f \in {NoFault} \cup PullErrors :
           Pull(v, overwrite, f)

SpecRepo == Init /\ [][RepoNextStep]_vars

TamperNextStep ==
    \/ \E v \in RepoVersions, files \in FileLists : Push(v, files)
    \/ \E v \in RepoVersions : Get(v)
    \/ \E v \in RepoVersions, overwrite \in BOOLEAN : Pull(v, overwrite, NoFault)
    \/ \E v \in RepoVersions, i \in {1, 2} : TamperPayload(v, i)
    \/ \E v \in RepoVersions, kind \in TamperKinds : TamperManifest(v, kind)
    \/ \E v, w \in RepoVersions : ReplayManifest(v, w)

SpecTamper == Init /\ [][TamperNextStep]_vars

\* The two file entries as one: the name of the entry is the name and the
\* checksum of the first followed by the name of the second.
Regrouped(files) ==
    <<[files[2] EXCEPT !.name = files[1].name \o files[1].checksum \o files[2].name]>>

\* The files list of the stored manifest of a pushed version is rewritten
\* with other entries; its signature is left as it was.
RegroupManifest(v) ==
    /\ tampers < MaxTampers
    /\ Has(pushed, v)
    /\ Len(pushed[v].files) = 2
    /\ store' = Put(store, ArtifactPath(ArtifactName, v),
                    ArtifactDoc([pushed[v] EXCEPT !.files = Regrouped(@)]))
    /\ tampers' = tampers + 1
    /\ last' = NoCall
    /\ UNCHANGED <<dest, orphans, pushed, lockVars, pubs>>

\* Pushes and gets over a store in which the files list of a manifest is
\* rewritten out of band.
RegroupNextStep ==
    \/ \E v \in RepoVersions, files \in FileLists : Push(v, files)
    \/ \E v \in RepoVersions : Get(v)
    \/ \E v \in RepoVersions : TamperManifest(v, "checksum")
    \/ \E v \in RepoVersions : RegroupManifest(v)

SpecRegroup == Init /\ [][RegroupNextStep]_vars

\* Pushes, gets and pulls over a store whose payloads are rewritten or
\* removed out of band.
PayloadNextStep ==
    \/ \E v \in RepoVersions, files \in FileLists : Push(v, files)
    \/ \E v \in RepoVersions : Get(v)
    \/ \E v \in RepoVersions, overwrite \in BOOLEAN : Pull(v, overwrite, NoFault)
    \/ \E v \in RepoVersions, i \in {1, 2} : TamperPayload(v, i)
    \/ \E v \in RepoVersions, i \in {1, 2} : DropPayload(v, i)

SpecPayload == Init /\ [][PayloadNextStep]_vars

(***************************************************************************)
(* The publishing specification: one publisher at a time pushes versions   *)
(* of two artifacts, and any backend call of a push may fail; a write may  *)
(* fail before or after the file was created or truncated.                 *)
(***************************************************************************)
PushNames == {ArtifactName, OtherName}

\* The versions pushed of each artifact.
PushVersions(name) == IF name = ArtifactName THEN RepoVersions ELSE {V100}

PushFiles == <<LocalFile("a.bin", "p")>>

\* The backend calls of push_artifact that may fail.
PushErrors ==
    StageFaults({"err"},
                {"read_versions", "read_index", "upload", "write_new_index",
                 "write_new_versions", "write_index", "write_manifest",
                 "write_versions"}, {1})
        \cup StageFaults({"err"}, {"write_index", "write_versions"}, {2})

PushNamed(name, v, f) ==
    \E r \in {push_artifact(Machine(store, EmptyDir, 0, TestConfig, f), name, v,
                            PushFiles)} :
        /\ r.hit = (f # NoFault)
        /\ store' = r.store
        /\ last' = Call("push", [name |-> name, version |-> v, files |-> PushFiles], r)
        /\ UNCHANGED <<dest, orphans, tampers, pushed, lockVars, pubs>>

PushNextStep ==
    \E name \in PushNames, f \in {NoFault} \cup PushErrors :
        \E v \in PushVersions(name) : PushNamed(name, v, f)

SpecPush == Init /\ [][PushNextStep]_vars

(***************************************************************************)
(* The configurations of a publisher: versions of two artifacts are pushed *)
(* under a configuration that may lack the publish parameters or a usable  *)
(* signing key, from local files that may fail to be read.                 *)
(***************************************************************************)
\* A reader's configuration: no publish parameters.
ReaderConfig == [hmac_keys |-> TestConfig.hmac_keys]

\* The publish parameters name a key that is not configured.
MissingKeyConfig == [TestConfig EXCEPT !.publish.hmac_signing_key = "absent"]

\* The signing key is not base64.
MalformedKeyConfig == [TestConfig EXCEPT !.hmac_keys = ("test" :> NotBase64)]

\* The signing key has the length of another method.
ShortKeyConfig == [TestConfig EXCEPT !.hmac_keys = ("test" :> "short")]

PublishConfigs ==
    <<TestConfig, ReaderConfig, MissingKeyConfig, MalformedKeyConfig, ShortKeyConfig>>

\* The read of a local file fails while it is digested.
LocalFileErrors == StageFaults({"err"}, {"digest"}, {1})

PushConfigured(name, v, c, f) ==
    \E r \in {push_artifact(Machine(store, EmptyDir, 0, PublishConfigs[c], f), name, v,
                            PushFiles)} :
        /\ r.hit = (f # NoFault)
        /\ store' = r.store
        /\ last' = Call("push", [name |-> name, version |-> v, config |-> c], r)
        /\ UNCHANGED <<dest, orphans, tampers, pushed, lockVars, pubs>>

ConfigNextStep ==
    \E name \in PushNames, c \in DOMAIN PublishConfigs, f \in {NoFault} \cup LocalFileErrors :
        \E v \in PushVersions(name) : PushConfigured(name, v, c, f)

SpecConfig == Init /\ [][ConfigNextStep]_vars

(***************************************************************************)
(* The crash specification of push: one publisher pushes versions of one   *)
(* artifact, one push at a time, and the process may be killed before any  *)
(* backend call, or inside a write after the file was truncated.           *)
(***************************************************************************)
CrashFileLists ==
    {<<LocalFile("a.bin", "p"), LocalFile("b.bin", "q")>>, <<LocalFile("a.bin", "q")>>}

PushKills ==
    StageFaults({"kill"},
                {"read_versions", "read_index", "write_new_index", "write_new_versions",
                 "write_index", "write_manifest", "write_versions"}, {1})
        \cup StageFaults({"kill"}, {"upload"}, {1, 2})
        \cup StageFaults({"kill"},
                         {"write_new_index", "write_new_versions", "write_index",
                          "write_manifest", "write_versions"}, {2})

PushFilesOf(v, files, f) ==
    \E r \in {push_artifact(Machine(store, EmptyDir, 0, TestConfig, f), ArtifactName, v,
                            files)} :
        /\ r.hit = (f # NoFault)
        /\ store' = r.store
        /\ last' = Call("push", [name |-> ArtifactName, version |-> v, files |-> files], r)
        /\ UNCHANGED <<dest, orphans, tampers, pushed, lockVars, pubs>>

PushCrashNextStep ==
    \E v \in RepoVersions, files \in CrashFileLists, f \in {NoFault} \cup PushKills :
        PushFilesOf(v, files, f)

SpecPushCrash == Init /\ [][PushCrashNextStep]_vars

(***************************************************************************)
(* Concurrent publishers.  Each publisher runs push_artifact on the same   *)
(* artifact with a version of its own; one action is one backend call,     *)
(* together with the local computation that follows it up to the next      *)
(* call, so that the calls of the publishers interleave in every order.    *)
(* The artifact is new, or has one version published before they start.    *)
(***************************************************************************)
PubVersion == (1 :> V100) @@ (2 :> V120)

PubFileLists ==
    {<<LocalFile("a.bin", "p"), LocalFile("b.bin", "q")>>, <<LocalFile("a.bin", "q")>>}

\* The backend a publisher's next call acts on.
PubMachine == Machine(store, EmptyDir, 0, TestConfig, NoFault)

\* push_artifact after init_artifact returned the version list: the test
\* that the version is new, then the digests of the local files.
PubChecked(p, versions) ==
    IF PubVersion[p] \in Range(versions)
    THEN [pubs[p] EXCEPT !.pc = "done", !.st = "ArtifactVersionAlreadyExists"]
    ELSE [pubs[p] EXCEPT
              !.pc = IF pubs[p].files = <<>> THEN "write_manifest" ELSE "upload",
              !.versions = versions,
              !.out = DigestFiles(PubMachine, pubs[p].files, 1,
                                  get_publish_algorithm(TestConfig).checksum_method).out]

\* A publisher calls push_artifact.
PubStart(p, files) ==
    /\ pubs[p].pc = "idle"
    /\ validate_artifact_name(ArtifactName)
    /\ pubs' = [pubs EXCEPT ![p] = [@ EXCEPT !.pc = "read_versions", !.files = files]]
    /\ UNCHANGED <<store, dest, orphans, tampers, pushed, last, lockVars>>

\* init_artifact: list_artifact_versions, and the match on its result.
PubReadVersions(p) ==
    /\ pubs[p].pc = "read_versions"
    /\ \E r \in {list_artifact_versions(PubMachine, ArtifactName)} :
           pubs' = [pubs EXCEPT ![p] =
                        IF Running(r) THEN PubChecked(p, r.out)
                        ELSE IF r.st = "ResourceNotFound" THEN [@ EXCEPT !.pc = "read_index"]
                        ELSE [@ EXCEPT !.pc = "done", !.st = r.st]]
    /\ UNCHANGED <<store, dest, orphans, tampers, pushed, last, lockVars>>

\* init: list_artifacts, and the match on its result.
PubReadIndex(p) ==
    /\ pubs[p].pc = "read_index"
    /\ \E r \in {list_artifacts(PubMachine)} :
           pubs' = [pubs EXCEPT ![p] =
                        IF Running(r)
                        THEN [@ EXCEPT !.pc = "write_new_versions", !.names = r.out]
                        ELSE [@ EXCEPT !.pc = "write_new_index"]]
    /\ UNCHANGED <<store, dest, orphans, tampers, pushed, last, lockVars>>

\* init, the Err arm: write_artifacts of an empty index.
PubWriteNewIndex(p) ==
    /\ pubs[p].pc = "write_new_index"
    /\ store' = create_file(PubMachine, "write_new_index", ArtifactsPath,
                            ArtifactsDoc(<<>>)).store
    /\ pubs' = [pubs EXCEPT ![p] = [@ EXCEPT !.pc = "write_new_versions", !.names = <<>>]]
    /\ UNCHANGED <<dest, orphans, tampers, pushed, last, lockVars>>

\* init_artifact: write_artifact_versions of an empty list.
PubWriteNewVersions(p) ==
    /\ pubs[p].pc = "write_new_versions"
    /\ store' = create_file(PubMachine, "write_new_versions", VersionsPath(ArtifactName),
                            VersionsDoc(<<>>)).store
    /\ pubs' = [pubs EXCEPT ![p] = [@ EXCEPT !.pc = "write_index"]]
    /\ UNCHANGED <<dest, orphans, tampers, pushed, last, lockVars>>

\* init_artifact: write_artifacts of the index with the name appended; it
\* returns the empty list.
PubWriteIndex(p) ==
    /\ pubs[p].pc = "write_index"
    /\ store' = create_file(PubMachine, "write_index", ArtifactsPath,
                            ArtifactsDoc(Append(pubs[p].names, ArtifactName))).store
    /\ pubs' = [pubs EXCEPT ![p] = PubChecked(p, <<>>)]
    /\ UNCHANGED <<dest, orphans, tampers, pushed, last, lockVars>>

\* push_artifact, second loop: one push_file.
PubUpload(p) ==
    /\ pubs[p].pc = "upload"
    /\ store' = push_file(PubMachine, pubs[p].i, pubs[p].files[pubs[p].i],
                          ArtifactFilePath(ArtifactName, PubVersion[p],
                                           pubs[p].files[pubs[p].i].name)).store
    /\ pubs' = [pubs EXCEPT ![p] =
                    [@ EXCEPT !.i = @ + 1,
                              !.pc = IF pubs[p].i = Len(pubs[p].files)
                                     THEN "write_manifest" ELSE "upload"]]
    /\ UNCHANGED <<dest, orphans, tampers, pushed, last, lockVars>>

\* push_artifact: write_artifact of the signed manifest.
PubWriteManifest(p) ==
    /\ pubs[p].pc = "write_manifest"
    /\ store' = create_file(PubMachine, "write_manifest",
                            ArtifactPath(ArtifactName, PubVersion[p]),
                            ArtifactDoc(SignedArtifact(get_publish_algorithm(TestConfig),
                                                       PubVersion[p], pubs[p].out))).store
    /\ pubs' = [pubs EXCEPT ![p] = [@ EXCEPT !.pc = "write_versions"]]
    /\ UNCHANGED <<dest, orphans, tampers, pushed, last, lockVars>>

\* push_artifact: write_artifact_versions of the list read at the start with
\* the version appended; the push returns the manifest.
PubWriteVersions(p) ==
    /\ pubs[p].pc = "write_versions"
    /\ store' = create_file(PubMachine, "write_versions", VersionsPath(ArtifactName),
                            VersionsDoc(Append(pubs[p].versions, PubVersion[p]))).store
    /\ pubs' = [pubs EXCEPT ![p] = [@ EXCEPT !.pc = "done", !.st = "Ok"]]
    /\ UNCHANGED <<dest, orphans, tampers, pushed, last, lockVars>>

\* A version of the artifact published before the publishers start.
PubSeed(files) ==
    /\ store = EmptyDir
    /\ \A p \in Publishers : pubs[p].pc = "idle"
    /\ \E r \in {push_artifact(PubMachine, ArtifactName, V200, files)} :
           /\ store' = r.store
           /\ last' = Call("push", [version |-> V200, files |-> files], r)
    /\ UNCHANGED <<dest, orphans, tampers, pushed, lockVars, pubs>>

PubNextStep ==
    \/ \E files \in PubFileLists : PubSeed(files)
    \/ \E p \in Publishers :
           \/ \E files \in PubFileLists : PubStart(p, files)
           \/ PubReadVersions(p)
           \/ PubReadIndex(p)
           \/ PubWriteNewIndex(p)
           \/ PubWriteNewVersions(p)
           \/ PubWriteIndex(p)
           \/ PubUpload(p)
           \/ PubWriteManifest(p)
           \/ PubWriteVersions(p)

SpecConcurrent == Init /\ [][PubNextStep]_vars

(***************************************************************************)
(* The specification of names: every operation that takes an artifact      *)
(* name is called with well-formed and ill-formed names, and the first     *)
(* backend read it makes may fail.                                         *)
(***************************************************************************)
AllNames == {ArtifactName, OtherName, BadName, SlashName, ""}

\* The first backend read of each operation fails.
NameFaults == StageFaults({"err"}, {"read_versions", "read_manifest"}, {1})

ListVersionsNamed(name, f) ==
    \E r \in {list_artifact_versions(Machine(store, EmptyDir, 0, TestConfig, f), name)} :
        /\ r.hit = (f # NoFault)
        /\ last' = Call("list_versions", [name |-> name], r)
        /\ UNCHANGED <<store, dest, orphans, tampers, pushed, lockVars, pubs>>

GetNamed(name, v, f) ==
    \E r \in {get_artifact(Machine(store, EmptyDir, 0, TestConfig, f), name, v)} :
        /\ r.hit = (f # NoFault)
        /\ last' = Call("get", [name |-> name, version |-> v], r)
        /\ UNCHANGED <<store, dest, orphans, tampers, pushed, lockVars, pubs>>

PullNamed(name, v, overwrite, f) ==
    \E r \in {pull_artifact(Machine(store, dest, orphans, TestConfig, f), name, v,
                            overwrite)} :
        /\ r.hit = (f # NoFault)
        /\ dest' = r.dir
        /\ last' = Call("pull", [name |-> name, version |-> v, overwrite |-> overwrite], r)
        /\ UNCHANGED <<store, orphans, tampers, pushed, lockVars, pubs>>

SyncNamed(name, req, f) ==
    \E r \in {sync(Machine(store, dest, orphans, TestConfig, f), name, req)} :
        /\ r.hit = (f # NoFault)
        /\ dest' = r.dir
        /\ last' = Call("sync", [name |-> name, req |-> req], r)
        /\ UNCHANGED <<store, orphans, tampers, pushed, lockVars, pubs>>

NamesNextStep ==
    \E name \in AllNames, f \in {NoFault} \cup NameFaults :
        \/ ListVersionsNamed(name, f)
        \/ GetNamed(name, V100, f)
        \/ PushNamed(name, V100, f)
        \/ \E overwrite \in BOOLEAN : PullNamed(name, V100, overwrite, f)
        \/ SyncNamed(name, STAR, f)

SpecNames == Init /\ [][NamesNextStep]_vars

(***************************************************************************)
(* The exec hook (exec.rs).  A command line is the sequence of its words;  *)
(* the word "{}" is the placeholder.  No command is <<>>, command c is     *)
(* <<c>>.  m.out is the list of the command lines run so far, in order; a  *)
(* run that exits with a non-zero status is a fault of stage "exec" whose  *)
(* index is the rank of the run.                                           *)
(***************************************************************************)
Placeholder == "{}"

\* str::contains("{}")
contains(command) == \E i \in DOMAIN command : command[i] = Placeholder

\* A replacement of the first placeholder only.
ReplaceFirst(command, path) ==
    [i \in DOMAIN command |->
        IF command[i] = Placeholder /\ \A j \in 1..(i - 1) : command[j] # Placeholder
        THEN path ELSE command[i]]

\* str::replace("{}", path): every placeholder is replaced.
replace(command, path) ==
    [i \in DOMAIN command |-> IF command[i] = Placeholder THEN path ELSE command[i]]

\* file_utils::path_concat2, for a relative second path.
path_concat2(p1, p2) == p1 \o "/" \o p2

\* exec_command: the command line is run by the shell; a non-zero exit
\* status is returned as ExecutionError.
exec_command(m, command) ==
    IF ~Running(m) THEN m
    ELSE IF Errs(m.f, "exec", Len(m.out) + 1)
         THEN Trip([m EXCEPT !.out = Append(@, command)], "ExecutionError", "exec")
         ELSE [m EXCEPT !.out = Append(@, command)]

\* exec, the loop over the files of the manifest; `?` leaves it at the first
\* run that fails.
RECURSIVE ExecEach(_, _, _, _, _)
ExecEach(m, files, i, pull_directory, command) ==
    IF ~Running(m) \/ i > Len(files) THEN m
    ELSE ExecEach(exec_command(m, replace(command,
                                          path_concat2(pull_directory, files[i].name))),
                  files, i + 1, pull_directory, command)

\* exec::exec
exec(m, artifact, pull_directory, command) ==
    IF command = <<>> THEN m
    ELSE IF contains(command[1])
         THEN ExecEach(m, artifact.files, 1, pull_directory, command[1])
         ELSE exec_command(m, command[1])

(***************************************************************************)
(* The specification of exec: the hook is called on manifests of zero to   *)
(* three files, with each kind of command, and any one run may fail.       *)
(***************************************************************************)
ExecFileLists ==
    {<<>>, <<LocalFile("a.bin", "p")>>, <<LocalFile("b.bin", "q")>>,
     <<LocalFile("a.bin", "p"), LocalFile("b.bin", "q")>>,
     <<LocalFile("b.bin", "q"), LocalFile("a.bin", "p")>>,
     <<LocalFile("a.bin", "p"), LocalFile("b.bin", "q"), LocalFile("c.bin", "p")>>}

ExecDirs == {"/opt/app", "dist", "."}

ExecCommands ==
    {<<>>, <<<<"restart">>>>, <<<<"chmod", "+x", Placeholder>>>>,
     <<<<"cp", Placeholder, Placeholder, ".bak">>>>}

\* One run exits with a non-zero status.
ExecErrors == StageFaults({"err"}, {"exec"}, {1, 2, 3})

\* The manifest a push of the files gives.
ManifestOf(v, files) ==
    SignedArtifact(get_publish_algorithm(TestConfig), v,
                   DigestFiles(Machine(EmptyDir, EmptyDir, 0, TestConfig, NoFault),
                               files, 1, "SHA384").out)

\* A call of exec: last.out is the list of the command lines it ran.
Exec(files, dir, command, f) ==
    \E r \in {exec(Machine(EmptyDir, EmptyDir, 0, TestConfig, f),
                   ManifestOf(V100, files), dir, command)} :
        /\ r.hit = (f # NoFault)
        /\ last' = [op |-> "exec",
                    arg |-> [artifact |-> ManifestOf(V100, files), dir |-> dir,
                             command |-> command],
                    st |-> IF r.st = "run" THEN "Ok" ELSE r.st,
                    stage |-> "",
                    out |-> r.out]
        /\ UNCHANGED <<store, dest, orphans, tampers, pushed, lockVars, pubs>>

ExecNextStep ==
    \E files \in ExecFileLists, dir \in ExecDirs, command \in ExecCommands,
       f \in {NoFault} \cup ExecErrors : Exec(files, dir, command, f)

SpecExec == Init /\ [][ExecNextStep]_vars

(***************************************************************************)
(* The sync command (binrep/src/main.rs) and the batch runner              *)
(* (binrep-batch/src/main.rs): sync, then the hook when it returned        *)
(* Updated.  A result holds the status sync returned and the command       *)
(* lines that were run.                                                    *)
(***************************************************************************)
HookDir == "/opt/app"

\* What is known of a sync that failed: no status, nothing run.
NoHook == [status |-> "", runs |-> <<>>]

\* The result of a sync whose hook, if any, ran as e.
Hooked(sync_result, e) ==
    [e EXCEPT !.out = [status |-> sync_result.status, runs |-> e.out]]

\* A caller that runs the hook whatever status sync returned.
HookOnEveryStatus(r, command) ==
    IF ~Running(r) THEN [r EXCEPT !.out = NoHook]
    ELSE Hooked(r.out, exec([r EXCEPT !.out = <<>>], r.out.artifact, HookDir, command))

\* The match on sync.status of both callers: exec in the Updated arm only.
HookOnUpdated(r, command) ==
    IF ~Running(r) THEN [r EXCEPT !.out = NoHook]
    ELSE IF r.out.status = "Updated"
         THEN Hooked(r.out, exec([r EXCEPT !.out = <<>>], r.out.artifact, HookDir, command))
         ELSE Hooked(r.out, [r EXCEPT !.out = <<>>])

\* _main, Command::Sync: the error of sync, or of the hook, is returned.
main_sync(m, name, req, command) == HookOnUpdated(sync(m, name, req), command)

\* batch::sync, one operation done as h: the error of sync ends the batch,
\* the error of the hook is reported and the batch goes on.
RECURSIVE batch_sync(_, _, _, _, _)
BatchStep(h, name, operations, i, results) ==
    IF h.st \notin {"run", "ExecutionError"} THEN [h EXCEPT !.out = Append(results, h.out)]
    ELSE batch_sync([h EXCEPT !.st = "run"], name, operations, i + 1, Append(results, h.out))

\* batch::sync, the loop over the operations.
batch_sync(m, name, operations, i, results) ==
    IF i > Len(operations) THEN [m EXCEPT !.out = results]
    ELSE BatchStep(HookOnUpdated(sync(m, name, operations[i].req), operations[i].command),
                   name, operations, i, results)

(***************************************************************************)
(* The specification of the hook: versions are published, and the          *)
(* destination is synced by the sync command or by a batch of one or two   *)
(* operations, with or without a hook command; a step of sync or a run of  *)
(* the hook may fail.                                                      *)
(***************************************************************************)
HookCommands == {<<>>, <<<<"restart">>>>, <<<<"chmod", "+x", Placeholder>>>>}

Operation(req, command) == [req |-> req, command |-> command]

Batches ==
    {<<Operation(STAR, <<<<"restart">>>>)>>,
     <<Operation(Tilde1, <<>>), Operation(STAR, <<<<"chmod", "+x", Placeholder>>>>)>>,
     <<Operation(STAR, <<<<"restart">>>>), Operation(STAR, <<<<"restart">>>>)>>,
     <<Operation(GeAlph, <<<<"restart">>>>), Operation(Tilde1, <<<<"restart">>>>)>>}

HookErrors ==
    StageFaults({"err"}, {"read_versions", "lock", "download", "write_meta", "exec"}, {1})

SyncCommand(req, command, f) ==
    \E r \in {main_sync(Machine(store, dest, orphans, TestConfig, f), ArtifactName, req,
                        command)} :
        /\ r.hit = (f # NoFault)
        /\ dest' = r.dir
        /\ orphans' = r.orph
        /\ last' = [op |-> "sync_command", arg |-> <<Operation(req, command)>>,
                    st |-> IF r.st = "run" THEN "Ok" ELSE r.st, stage |-> "",
                    out |-> <<r.out>>]
        /\ UNCHANGED <<store, tampers, pushed, lockVars, pubs>>

BatchSync(operations, f) ==
    \E r \in {batch_sync(Machine(store, dest, orphans, TestConfig, f), ArtifactName,
                         operations, 1, <<>>)} :
        /\ r.hit = (f # NoFault)
        /\ dest' = r.dir
        /\ orphans' = r.orph
        /\ last' = [op |-> "batch_sync", arg |-> operations,
                    st |-> IF r.st = "run" THEN "Ok" ELSE r.st, stage |-> "",
                    out |-> r.out]
        /\ UNCHANGED <<store, tampers, pushed, lockVars, pubs>>

HookNextStep ==
    \/ \E v \in SyncVersions : Publish(v)
    \/ \E req \in SyncReqs, command \in HookCommands, f \in {NoFault} \cup HookErrors :
           SyncCommand(req, command, f)
    \/ \E operations \in Batches, f \in {NoFault} \cup HookErrors : BatchSync(operations, f)

SpecHook == Init /\ [][HookNextStep]_vars

(***************************************************************************)
(* The file backend's paths (file_backend.rs).  Here a backend-relative    *)
(* path is the sequence of its characters, and a file of the file system   *)
(* is named by the sequence of the components that lead to it.             *)
(***************************************************************************)
PathChars == {"/", ".", "a"}

RECURSIVE split(_)
SplitStep(c, rest) ==
    IF c = "/" THEN <<<<>>>> \o rest
    ELSE <<<<c>> \o Head(rest)>> \o Tail(rest)

\* str::split("/"): the elements between the slashes, empty ones included.
split(path) ==
    IF path = <<>> THEN <<<<>>>> ELSE SplitStep(Head(path), split(Tail(path)))

\* The root directory of the backend.
Root == <<<<"r">>>>

\* PathBuf::join as a naive get_path would use it: an absolute path
\* replaces the root.
JoinPath(root, path) ==
    IF path # <<>> /\ Head(path) = "/"
    THEN SelectSeq(split(path), LAMBDA element : Len(element) > 0)
    ELSE root \o SelectSeq(split(path), LAMBDA element : Len(element) > 0)

\* get_path: the non-empty elements of the path are pushed on the root.
get_path(root, path) ==
    root \o SelectSeq(split(path), LAMBDA element : Len(element) > 0)

\* The file a PathBuf names for the operating system: a "." component is
\* the directory it stands in.
Resolve(components) == SelectSeq(components, LAMBDA element : element # <<".">>)

\* The paths given to the backend: each ends with a file name, as the paths
\* the repository builds do, and none has a ".." element.
BackendPaths ==
    {path \in UNION {[1..n -> PathChars] : n \in 1..MaxPathLen} :
        /\ path[Len(path)] = "a"
        /\ \A i \in DOMAIN split(path) : split(path)[i] # <<".", ".">>}

\* a is b or one of the directories that lead to b.
Prefix(a, b) == Len(a) <= Len(b) /\ SubSeq(b, 1, Len(a)) = a

\* The file system cannot hold a file at p: p is a directory, or a file
\* stands where p needs a directory.
Blocked(s, p) ==
    \/ Prefix(p, Root)
    \/ \E q \in DOMAIN s : q # p /\ (Prefix(p, q) \/ Prefix(q, p))

\* FileBackend::read_file
fb_read_file(m, path) ==
    IF Blocked(m.store, Resolve(get_path(Root, path)))
    THEN Stop(m, "BackendOther", "read")
    ELSE read_file(m, "read", Resolve(get_path(Root, path)))

\* FileBackend::create_file
fb_create_file(m, path, data) ==
    IF Blocked(m.store, Resolve(get_path(Root, path)))
    THEN Stop(m, "BackendOther", "write")
    ELSE create_file(m, "write", Resolve(get_path(Root, path)), Blob(data))

\* A document is written under a path; the backend holds one document.
FbCreateFile(path, data) ==
    \E r \in {fb_create_file(Machine(store, EmptyDir, 0, TestConfig, NoFault), path, data)} :
        /\ \A q \in DOMAIN r.store : q = Resolve(get_path(Root, path))
        /\ store' = r.store
        /\ last' = Call("create_file", [path |-> path, data |-> data], WithOut(r, <<>>))
        /\ UNCHANGED <<dest, orphans, tampers, pushed, lockVars, pubs>>

\* The document under a path is read; the call is recorded by what it
\* returned.
FbReadFile(path) ==
    \E r \in {fb_read_file(Machine(store, EmptyDir, 0, TestConfig, NoFault), path)} :
        /\ last' = Call("read_file", [root |-> Root], r)
        /\ UNCHANGED <<store, dest, orphans, tampers, pushed, lockVars, pubs>>

PathsNextStep ==
    \E path \in BackendPaths :
        \/ \E data \in {"p", "q"} : FbCreateFile(path, data)
        \/ FbReadFile(path)

SpecPaths == Init /\ [][PathsNextStep]_vars

(***************************************************************************)
(* What the store and a destination directory hold.                        *)
(***************************************************************************)
\* The names the artifact index of backend s lists; none when there is no
\* index or it does not parse.
IndexOf(s) ==
    IF Has(s, ArtifactsPath) /\ s[ArtifactsPath].kind = "artifacts"
    THEN Range(s[ArtifactsPath].artifacts)
    ELSE {}

\* The versions the version list of an artifact lists in backend s.
VersionsOf(s, name) ==
    IF Has(s, VersionsPath(name)) /\ s[VersionsPath(name)].kind = "versions"
    THEN Range(s[VersionsPath(name)].versions)
    ELSE {}

\* The version list stored for the artifact, empty when there is none.
StoredVersions(name) ==
    IF Has(store, VersionsPath(name)) /\ store[VersionsPath(name)].kind = "versions"
    THEN store[VersionsPath(name)].versions
    ELSE <<>>

\* The stored versions that match a requirement.
MatchingVersions(name, req) == {v \in Range(StoredVersions(name)) : Matches(req, v)}

\* v is the greatest of the stored versions that match req.
IsTarget(name, req, v) ==
    /\ v \in MatchingVersions(name, req)
    /\ \A w \in MatchingVersions(name, req) : ~VersionLess(v, w)

\* The manifest stored for a version.
StoredManifest(name, v) == store[ArtifactPath(name, v)].artifact

\* Directory dir holds every file of the manifest, with the content the
\* manifest's checksum describes.
HoldsFiles(dir, artifact) ==
    \A i \in DOMAIN artifact.files :
        /\ Has(dir, artifact.files[i].name)
        /\ digest_file(dir[artifact.files[i].name]) = artifact.files[i].checksum

\* The SyncMetadata file of a directory: its content, or <<>> when absent.
MetaOf(dir) ==
    IF Has(dir, MetaPath(ArtifactName)) THEN <<dir[MetaPath(ArtifactName)]>> ELSE <<>>

\* The sync of the current destination, without fault.
NextSync(req) == sync(Machine(store, dest, orphans, TestConfig, NoFault), ArtifactName, req)

\* The push of files as version v, now.
NextPush(v, files) ==
    push_artifact(Machine(store, EmptyDir, 0, TestConfig, NoFault), ArtifactName, v, files)

\* The get of version v, now.
NextGet(v) == get_artifact(Machine(store, EmptyDir, 0, TestConfig, NoFault), ArtifactName, v)

\* The pull of version v into directory dir, now.
NextPull(dir, v, overwrite) ==
    pull_artifact(Machine(store, dir, 0, TestConfig, NoFault), ArtifactName, v, overwrite)

\* The signature of the manifest is what the configured key of its key_id
\* gives, under its signature method, for the names and checksums of its
\* files in order.
Authentic(artifact) ==
    /\ artifact.signature.key_id \in DOMAIN TestConfig.hmac_keys
    /\ artifact.signature.signature
           = Sign(artifact.signature.signature_method,
                  TestConfig.hmac_keys[artifact.signature.key_id],
                  ToSign(artifact.files))

\* The manifest stored for v is the one its push returned.
ManifestIntact(v) ==
    /\ Has(pushed, v)
    /\ store[ArtifactPath(ArtifactName, v)] = ArtifactDoc(pushed[v])

\* Some stored payload of v is not the content whose digest the pushed
\* manifest records.
PayloadDiffers(v) ==
    \E i \in DOMAIN pushed[v].files :
        digest_file(store[ArtifactFilePath(ArtifactName, v, pushed[v].files[i].name)])
            # pushed[v].files[i].checksum

(***************************************************************************)
(* Claims.                                                                 *)
(***************************************************************************)
\* C1: at most one sync process at a time is between taking the lock and
\* releasing it, under every interleaving of the steps of the processes.
C1_MutualExclusion == Cardinality({p \in Procs : lpc[p] = "locked"}) <= 1

\* C2: once a sync returned Updated, the sync of the same arguments over the
\* same repository returns UpToDate with the same version, and leaves in
\* the destination nothing changed but the lock file.
C2_SecondSyncUpToDate ==
    (last.op = "sync" /\ last.st = "Ok" /\ last.out.status = "Updated")
        => \A r \in {NextSync(last.arg.req)} :
               /\ Running(r)
               /\ r.out.status = "UpToDate"
               /\ r.out.artifact.version = last.out.artifact.version
               /\ Del(r.dir, LockPath(ArtifactName)) = Del(dest, LockPath(ArtifactName))

\* C2, its case: a sync has just returned Updated and delivered files.
C2_Witness ==
    /\ last.op = "sync" /\ last.st = "Ok" /\ last.out.status = "Updated"
    /\ Has(dest, "x.bin") /\ Has(dest, "y.bin")

\* C3: a sync that succeeds returns the stored manifest of the greatest
\* stored version that matches the requirement; when no stored version
\* of the version list matches, sync fails with NoVersionMatching and
\* leaves the destination as it was.
C3_GreatestMatching ==
    /\ (last.op = "sync" /\ last.st = "Ok")
           => /\ IsTarget(ArtifactName, last.arg.req, last.out.artifact.version)
              /\ last.out.artifact
                     = StoredManifest(ArtifactName, last.out.artifact.version)
    /\ (last.op = "sync" /\ last.st = "NoVersionMatching")
           => MatchingVersions(ArtifactName, last.arg.req) = {}
    /\ \A req \in SyncReqs :
           (Has(store, VersionsPath(ArtifactName)) /\ MatchingVersions(ArtifactName, req) = {})
               => \A r \in {NextSync(req)} : r.st = "NoVersionMatching" /\ r.dir = dest

\* C3, its case: the version returned is the greatest of several matching
\* versions and was not the last one published.
C3_Witness ==
    /\ last.op = "sync" /\ last.st = "Ok"
    /\ Cardinality(MatchingVersions(ArtifactName, last.arg.req)) >= 2
    /\ StoredVersions(ArtifactName)[Len(StoredVersions(ArtifactName))]
           # last.out.artifact.version

\* C4: after a sync returned Updated for version V over a destination
\* whose SyncMetadata recorded version V', every file of V is in the
\* destination and every file of V' that V does not name is absent.
C4_FilesReplaced ==
    [][(/\ last'.op = "sync" /\ last'.st = "Ok" /\ last'.out.status = "Updated"
        /\ Has(dest, MetaPath(ArtifactName))
        /\ dest[MetaPath(ArtifactName)].kind = "syncmeta")
          => /\ \A file \in Range(last'.out.artifact.files) : Has(dest', file.name)
             /\ \A old \in Range(dest[MetaPath(ArtifactName)].artifact.files) :
                    (\A file \in Range(last'.out.artifact.files) : file.name # old.name)
                        => ~Has(dest', old.name)]_vars

\* The steps of the update branch of sync that precede the SyncMetadata write.
StepsBeforeMetaWrite ==
    {"sync_tempdir", "read_manifest", "tempdir", "download", "mv", "delete", "move",
     "write_meta"}

\* C5: after a sync process was killed in its update branch before the
\* SyncMetadata write, the sync of the same arguments over the same
\* repository succeeds and leaves the SyncMetadata recording the target
\* version and every file of the target manifest in the destination.
C5_ConvergesAfterKill ==
    (last.op = "sync" /\ last.st = "killed" /\ last.stage \in StepsBeforeMetaWrite)
        => \A r \in {NextSync(last.arg.req)} :
               /\ Running(r)
               /\ IsTarget(ArtifactName, last.arg.req, r.out.artifact.version)
               /\ r.dir[MetaPath(ArtifactName)]
                      = SyncMetaDoc(StoredManifest(ArtifactName, r.out.artifact.version))
               /\ HoldsFiles(r.dir, StoredManifest(ArtifactName, r.out.artifact.version))

\* C5, its case: a sync process was killed while it deleted the files of
\* the previous version, one of which is gone.
C5_Witness ==
    /\ last.op = "sync" /\ last.st = "killed" /\ last.stage = "delete"
    /\ Has(dest, MetaPath(ArtifactName))
    /\ dest[MetaPath(ArtifactName)].kind = "syncmeta"
    /\ ~HoldsFiles(dest, dest[MetaPath(ArtifactName)].artifact)

\* C6: once a version was pushed, every later push of that version, with
\* whatever files, fails with ArtifactVersionAlreadyExists and writes
\* nothing to the backend, and get returns the manifest of the first push
\* (as long as nobody rewrote the backend out of band).
C6_RepublishRejected ==
    \A v \in DOMAIN pushed :
        /\ \A files \in FileLists :
               \A r \in {NextPush(v, files)} :
                   r.st = "ArtifactVersionAlreadyExists" /\ r.store = store
        /\ tampers = 0
               => \A g \in {NextGet(v)} : Running(g) /\ g.out = pushed[v]

\* C6, its case: a version was pushed a second time, with other files.
C6_Witness ==
    /\ last.op = "push" /\ last.st = "ArtifactVersionAlreadyExists"
    /\ Has(pushed, last.arg.version)
    /\ Len(last.arg.files) # Len(pushed[last.arg.version].files)

C8_TamperedPayloadRejected ==
    \A v \in RepoVersions :
        (ManifestIntact(v) /\ PayloadDiffers(v))
            => \A overwrite \in BOOLEAN :
                   \A r \in {NextPull(dest, v, overwrite)} :
                       r.st = "WrongFileChecksum" /\ r.dir = dest

\* C8, its case: a pull with overwrite, into a directory that holds the
\* files of the version, has just failed on the rewritten second payload.
C8_Witness ==
    /\ last.op = "pull" /\ last.st = "WrongFileChecksum" /\ last.arg.overwrite
    /\ ManifestIntact(last.arg.version)
    /\ Has(store, ArtifactFilePath(ArtifactName, last.arg.version, "b.bin"))
    /\ store[ArtifactFilePath(ArtifactName, last.arg.version, "b.bin")] = Blob("z")
    /\ Has(dest, "a.bin") /\ Has(dest, "b.bin")

\* C9: after a push succeeded, get of the version succeeds with one entry
\* per pushed file, in order, carrying the digest of that file, and pull of
\* the version into an empty directory succeeds and delivers every pushed
\* file with its content.
C9_PushPullRoundTrip ==
    (last.op = "push" /\ last.st = "Ok")
        => /\ \A g \in {NextGet(last.arg.version)} :
                  /\ Running(g)
                  /\ Len(g.out.files) = Len(last.arg.files)
                  /\ \A i \in DOMAIN last.arg.files :
                         /\ g.out.files[i].name = last.arg.files[i].name
                         /\ g.out.files[i].checksum
                                = digest_file(Blob(last.arg.files[i].data))
           /\ \A r \in {NextPull(EmptyDir, last.arg.version, FALSE)} :
                  /\ Running(r)
                  /\ \A i \in DOMAIN last.arg.files :
                         /\ Has(r.dir, last.arg.files[i].name)
                         /\ r.dir[last.arg.files[i].name] = Blob(last.arg.files[i].data)

\* C10: a pull that returns an error leaves the destination directory
\* exactly as it was before the call.
C10_FailedPullLeavesDest ==
    [][(last'.op = "pull" /\ last'.st # "Ok") => dest' = dest]_vars

\* C11: for a version that can be pulled into an empty directory, when the
\* destination holds a file the manifest names, pull without overwrite
\* fails with DestinationFileAlreadyExists and leaves the destination as it
\* was, and pull with overwrite succeeds, leaves every file of the manifest
\* with the stored content and every other file as it was.
C11_CollisionCheck ==
    \A v \in RepoVersions :
        \A e \in {NextPull(EmptyDir, v, FALSE)} :
            (Running(e) /\ \E file \in Range(e.out.files) : Has(dest, file.name))
                => /\ \A r \in {NextPull(dest, v, FALSE)} :
                          r.st = "DestinationFileAlreadyExists" /\ r.dir = dest
                   /\ \A r \in {NextPull(dest, v, TRUE)} :
                          /\ Running(r)
                          /\ \A file \in Range(e.out.files) :
                                 /\ Has(r.dir, file.name)
                                 /\ r.dir[file.name]
                                        = store[ArtifactFilePath(ArtifactName, v, file.name)]
                          /\ \A k \in DOMAIN dest :
                                 (\A file \in Range(e.out.files) : file.name # k)
                                     => (Has(r.dir, k) /\ r.dir[k] = dest[k])

\* C11, its case: a pull without overwrite has just been refused over a
\* destination that holds, under a name of the manifest, another content
\* than the stored one, beside a file the manifest does not name.
C11_Witness ==
    /\ last.op = "pull" /\ last.st = "DestinationFileAlreadyExists"
    /\ Has(dest, "a.bin") /\ Has(dest, "b.bin")
    /\ Has(store, ArtifactFilePath(ArtifactName, last.arg.version, "a.bin"))
    /\ ~Has(store, ArtifactFilePath(ArtifactName, last.arg.version, "b.bin"))
    /\ dest["a.bin"] # store[ArtifactFilePath(ArtifactName, last.arg.version, "a.bin")]

\* C12: a sync that returns an error leaves the SyncMetadata file of the
\* destination exactly as it was before the call.
C12_FailedSyncKeepsMeta ==
    [][(last'.op = "sync" /\ last'.st # "Ok") => MetaOf(dest') = MetaOf(dest)]_vars

\* C13: a name that is in the artifact index stays in it over every push,
\* whatever the backend calls of the push return.
C13_IndexKeepsNames ==
    [][IndexOf(store) \subseteq IndexOf(store')]_vars

\* C14: a version that is in the version list of an artifact stays in it
\* over every push, failed pushes included.
C14_VersionListKeepsVersions ==
    [][\A name \in PushNames :
           VersionsOf(store, name) \subseteq VersionsOf(store', name)]_vars

\* C15: after pushes that each ran to their return, a version is in the
\* version list of an artifact exactly when its manifest is stored.
C15_ListedIffManifest ==
    \A name \in PushNames, v \in RepoVersions :
        v \in VersionsOf(store, name) <=> Has(store, ArtifactPath(name, v))


\* The version publisher p pushed is stored intact: get returns the manifest
\* p signed, and pull into an empty directory gives the bytes p pushed.
PubIntact(p) ==
    /\ \E g \in {NextGet(PubVersion[p])} :
           /\ Running(g)
           /\ g.out.version = PubVersion[p]
           /\ g.out.files = pubs[p].out
    /\ \E r \in {NextPull(EmptyDir, PubVersion[p], FALSE)} :
           /\ Running(r)
           /\ \A i \in DOMAIN pubs[p].files :
                  /\ Has(r.dir, pubs[p].files[i].name)
                  /\ r.dir[pubs[p].files[i].name] = Blob(pubs[p].files[i].data)

\* C16: when two publishers push different versions of the same artifact
\* concurrently, then under every interleaving of their backend calls the
\* manifest and payloads of a version whose push returned stay stored
\* intact, whatever the other publisher does and whether or not the version
\* is in the version list: get and pull of it succeed.
C16_BothVersionsIntact ==
    \A p \in Publishers : pubs[p].st = "Ok" => PubIntact(p)

\* Both pushes returned, the version list misses one of the two versions,
\* and both are intact.
C16_Witness ==
    /\ \A p \in Publishers : pubs[p].st = "Ok" /\ PubIntact(p)
    /\ \E p \in Publishers : PubVersion[p] \notin VersionsOf(store, ArtifactName)
    /\ \E p \in Publishers : PubVersion[p] \in VersionsOf(store, ArtifactName)

\* C17: a sync that finds the lock of (name, dest) held by another process
\* returns the lock-held error without waiting, changes neither the
\* SyncMetadata nor any other file of dest, leaves no temporary directory,
\* and leaves the lock file of the holder in place.
C17_LockHeldChangesNothing ==
    [][(last'.op = "sync" /\ last'.st = "LockHeld")
           => /\ Has(dest', LockPath(ArtifactName))
              /\ Del(dest', LockPath(ArtifactName)) = Del(dest, LockPath(ArtifactName))
              /\ orphans' = orphans]_vars

\* A sync returned the lock-held error over a directory that holds the
\* SyncMetadata and the files of an earlier sync.
C17_Witness ==
    /\ last.op = "sync"
    /\ last.st = "LockHeld"
    /\ Has(dest, LockPath(ArtifactName))
    /\ Has(dest, MetaPath(ArtifactName))
    /\ dest[MetaPath(ArtifactName)].kind = "syncmeta"
    /\ Has(dest, "x.bin")

\* What each operation that takes a name returns for it, from the current
\* state, when fault f is due.
NameCalls(name, f) ==
    <<list_artifact_versions(Machine(store, dest, orphans, TestConfig, f), name),
      get_artifact(Machine(store, dest, orphans, TestConfig, f), name, V100),
      push_artifact(Machine(store, dest, orphans, TestConfig, f), name, V100, PushFiles),
      pull_artifact(Machine(store, dest, orphans, TestConfig, f), name, V100, TRUE),
      sync(Machine(store, dest, orphans, TestConfig, f), name, STAR)>>

\* The call returned ArtifactNameError, reached no backend read and wrote
\* nothing.
Refused(r) ==
    /\ r.st = "ArtifactNameError"
    /\ ~r.hit
    /\ r.store = store
    /\ r.dir = dest

\* C18: list_versions, get, push, pull and sync return ArtifactNameError for
\* a name that is empty or holds a character outside [A-Za-z0-9._-], before
\* any backend read (no read is reached, so none can fail) or write (the
\* backend and the directory are as they were); they do not return this
\* error for a non-empty name made of these characters only.
C18_NamesValidated ==
    \A f \in {NoFault} \cup NameFaults, i \in 1..5 :
        /\ \A name \in {"", BadName, SlashName} : Refused(NameCalls(name, f)[i])
        /\ \A name \in {ArtifactName, OtherName} :
               NameCalls(name, f)[i].st # "ArtifactNameError"

\* A name with a space was refused over a backend that holds artifacts, and
\* the same call with a well-formed name succeeds.
C18_Witness ==
    /\ last.op \in {"get", "pull", "sync", "list_versions"}
    /\ last.arg.name = BadName
    /\ last.st = "ArtifactNameError"
    /\ Has(store, VersionsPath(OtherName))
    /\ Running(get_artifact(Machine(store, dest, orphans, TestConfig, NoFault),
                            OtherName, V100))

\* The command line the claim gives for the i-th file of the last exec:
\* every placeholder stands for the directory joined with the file name.
ExpectedRun(i) ==
    [j \in DOMAIN last.arg.command[1] |->
        IF last.arg.command[1][j] = "{}"
        THEN last.arg.dir \o "/" \o last.arg.artifact.files[i].name
        ELSE last.arg.command[1][j]]

\* The last exec had a command with a placeholder.
ExecPerFile ==
    /\ last.op = "exec"
    /\ last.arg.command # <<>>
    /\ \E j \in DOMAIN last.arg.command[1] : last.arg.command[1][j] = "{}"

\* What exec does without a command, and with a command without placeholder:
\* nothing, and one run of the command as given.
ExecOnceOrNever ==
    /\ (last.op = "exec" /\ last.arg.command = <<>>) => last.out = <<>>
    /\ (last.op = "exec" /\ last.arg.command # <<>> /\ ~ExecPerFile)
           => last.out = <<last.arg.command[1]>>

\* C19: exec runs the command once per file of the manifest, in manifest
\* order, with each placeholder replaced by the directory joined with the
\* file name, when the command holds a placeholder; it runs the command once
\* otherwise, and nothing when no command is given.
C19_RunsOncePerFile ==
    /\ ExecOnceOrNever
    /\ ExecPerFile
           => /\ Len(last.out) = Len(last.arg.artifact.files)
              /\ \A i \in DOMAIN last.out : last.out[i] = ExpectedRun(i)

\* C19 as the code has it: with a placeholder, exec runs the command for the
\* files of the manifest in manifest order, each placeholder replaced by the
\* directory joined with the file name, up to and including the first run
\* that exits with a non-zero status, which ends exec with ExecutionError;
\* it runs it for every file when no run fails.  It runs the command once
\* when it holds no placeholder, and nothing when no command is given.
C19_RunsUntilFailure ==
    /\ ExecOnceOrNever
    /\ ExecPerFile
           => /\ Len(last.out) <= Len(last.arg.artifact.files)
              /\ \A i \in DOMAIN last.out : last.out[i] = ExpectedRun(i)
              /\ last.st \in {"Ok", "ExecutionError"}
              /\ last.st = "Ok" => Len(last.out) = Len(last.arg.artifact.files)

\* The command holds two placeholders, the manifest three files, and the
\* run for the second file failed: the third file was not run.
C19_Witness ==
    /\ ExecPerFile
    /\ Len(last.arg.artifact.files) = 3
    /\ Len(last.out) = 2
    /\ last.st = "ExecutionError"
    /\ Cardinality({j \in DOMAIN last.arg.command[1] : last.arg.command[1][j] = "{}"}) = 2

\* C20: after a push of (name, version) returned, the manifest is stored at
\* <name>/<version>/artifact.sane, the version list at <name>/versions.sane
\* and each payload at <name>/<version>/<file name>.
C20_Layout ==
    (last.op = "push" /\ last.st = "Ok")
        => /\ Has(store, last.arg.name \o "/" \o VersionString(last.arg.version)
                             \o "/artifact.sane")
           /\ store[last.arg.name \o "/" \o VersionString(last.arg.version)
                        \o "/artifact.sane"] = ArtifactDoc(last.out)
           /\ Has(store, last.arg.name \o "/versions.sane")
           /\ store[last.arg.name \o "/versions.sane"].kind = "versions"
           /\ last.arg.version \in Range(store[last.arg.name \o "/versions.sane"].versions)
           /\ \A i \in DOMAIN last.arg.files :
                  /\ Has(store, last.arg.name \o "/" \o VersionString(last.arg.version)
                                    \o "/" \o last.arg.files[i].name)
                  /\ store[last.arg.name \o "/" \o VersionString(last.arg.version)
                               \o "/" \o last.arg.files[i].name]
                         = Blob(last.arg.files[i].data)

\* The paths that are path t with one more leading slash, one slash
\* repeated, or a leading "./".
Variants(t) ==
    {<<"/">> \o t, <<".", "/">> \o t}
        \cup {SubSeq(t, 1, i) \o <<"/">> \o SubSeq(t, i + 1, Len(t)) :
                i \in {j \in DOMAIN t : t[j] = "/"}}

\* What a read under the path returns now: the text read, or the error.
ReadNow(path) ==
    Call("read_file", <<>>,
         fb_read_file(Machine(store, EmptyDir, 0, TestConfig, NoFault), path))

\* C21: for the file backend, two backend-relative paths that differ only
\* by leading slashes, repeated slashes or a leading "./" name the same
\* file under the root: the document written under one is what a read under
\* the other returns.
C21_SamePath ==
    \A t \in BackendPaths : \A u \in Variants(t) :
        /\ Resolve(get_path(Root, t)) = Resolve(get_path(Root, u))
        /\ ReadNow(t) = ReadNow(u)
        /\ (last.op = "create_file" /\ last.st = "Ok" /\ last.arg.path \in {t, u})
               => /\ ReadNow(t).st = "Ok"
                  /\ ReadNow(u).out = Blob(last.arg.data)

\* A document was written under a//a and is read under /a/a and under a/a;
\* a itself is a directory.
C21_Witness ==
    /\ last.op = "create_file"
    /\ last.st = "Ok"
    /\ last.arg.path = <<"a", "/", "/", "a">>
    /\ ReadNow(<<"/", "a", "/", "a">>).out = Blob(last.arg.data)
    /\ ReadNow(<<"a", "/", "a">>).out = Blob(last.arg.data)
    /\ ReadNow(<<"a">>).st = "BackendOther"

\* The manifest of version v of the artifact is stored, and so is every
\* payload it names, with the content its checksum records.
VersionComplete(s, name, v) ==
    /\ Has(s, ArtifactPath(name, v))
    /\ s[ArtifactPath(name, v)].kind = "artifact"
    /\ \A i \in DOMAIN s[ArtifactPath(name, v)].artifact.files :
           \E file \in {s[ArtifactPath(name, v)].artifact.files[i]} :
               /\ Has(s, ArtifactFilePath(name, v, file.name))
               /\ s[ArtifactFilePath(name, v, file.name)].kind = "blob"
               /\ digest_file(s[ArtifactFilePath(name, v, file.name)]) = file.checksum

\* C22: in every state a push by a single publisher leaves, the state left
\* by a crash after any backend write included, each version in the version
\* list has its manifest stored and every payload of that manifest stored.
C22_ListedIsComplete ==
    \A v \in VersionsOf(store, ArtifactName) : VersionComplete(store, ArtifactName, v)

\* The publisher was killed between the manifest write and the rewrite of
\* the version list, which lists another version: the manifest of the new
\* version is stored and the version is not listed.
C22_Witness ==
    /\ last.op = "push"
    /\ last.st = "killed"
    /\ last.stage = "write_versions"
    /\ VersionsOf(store, ArtifactName) # {}
    /\ last.arg.version \notin VersionsOf(store, ArtifactName)
    /\ VersionComplete(store, ArtifactName, last.arg.version)

\* C23: whenever the SyncMetadata of dest records a version, at rest or
\* after a sync interrupted at any step, all files of the manifest it
\* records are present in dest.
C23_RecordedFilesPresent ==
    (Has(dest, MetaPath(ArtifactName)) /\ dest[MetaPath(ArtifactName)].kind = "syncmeta")
        => \A i \in DOMAIN dest[MetaPath(ArtifactName)].artifact.files :
               Has(dest, dest[MetaPath(ArtifactName)].artifact.files[i].name)

\* The names of the files of a manifest.
FileNames(artifact) == {artifact.files[i].name : i \in DOMAIN artifact.files}

\* The backend as it is, and as it is after one more version is published.
LaterStores ==
    {store} \cup {push_artifact(Machine(store, EmptyDir, 0, TestConfig, NoFault),
                                ArtifactName, w, FilesOf(w)).store : w \in SyncVersions}

\* C24: after a sync killed in its update branch, once its temporary
\* directory was created, is followed by a successful sync, dest holds no
\* leftover of the interrupted run: no temporary directory, and no file of
\* the version it was installing that is absent from the manifest now
\* recorded in the SyncMetadata.
C24_LeftoversSwept ==
    (last.op = "sync" /\ last.st = "killed"
        /\ last.stage \in StepsBeforeMetaWrite \ {"sync_tempdir"})
        => \A s \in LaterStores, v \in SyncVersions :
               \A r \in {sync(Machine(s, dest, orphans, TestConfig, NoFault),
                              ArtifactName, last.arg.req)} :
                   (Running(r) /\ IsTarget(ArtifactName, last.arg.req, v))
                       => /\ r.orph = 0
                          /\ \A name \in FileNames(StoredManifest(ArtifactName, v)) :
                                 Has(r.dir, name) => name \in FileNames(r.out.artifact)

\* C25: over pushes that do not overlap, interrupted and retried pushes
\* included, the manifest of a (name, version) is written at most once: a
\* manifest that is stored is never written again.
C25_ManifestWrittenOnce ==
    [][\A v \in RepoVersions :
           (Has(store, ArtifactPath(ArtifactName, v))
               /\ store[ArtifactPath(ArtifactName, v)].kind = "artifact")
               => store'[ArtifactPath(ArtifactName, v)] = store[ArtifactPath(ArtifactName, v)]]_vars

\* Every file entry of the manifest has its blob in the store, with the
\* digest the entry records.
PayloadsMatch(artifact, v) ==
    \A i \in DOMAIN artifact.files :
        /\ Has(store, ArtifactFilePath(ArtifactName, v, artifact.files[i].name))
        /\ digest_file(store[ArtifactFilePath(ArtifactName, v, artifact.files[i].name)])
               = artifact.files[i].checksum

\* Some payload of the pushed version v is not in the store.
PayloadMissing(v) ==
    \E i \in DOMAIN pushed[v].files :
        ~Has(store, ArtifactFilePath(ArtifactName, v, pushed[v].files[i].name))

\* The manifest of the pushed version v is in the store as it was pushed.
ManifestAsPushed(v) ==
    /\ Has(pushed, v)
    /\ Has(store, ArtifactPath(ArtifactName, v))
    /\ store[ArtifactPath(ArtifactName, v)] = ArtifactDoc(pushed[v])

PushOutcome(name, v, f) ==
    push_artifact(Machine(store, EmptyDir, 0, TestConfig, f), name, v, PushFiles)

\* The index is in s what it is in the store.
SameIndex(s) ==
    /\ Has(s, ArtifactsPath) = Has(store, ArtifactsPath)
    /\ Has(store, ArtifactsPath) => s[ArtifactsPath] = store[ArtifactsPath]

\* C27: a push whose read of the version list fails in the backend with
\* another error than not-found returns that error and leaves the store as
\* it is, and so does a push that reads a version list that does not
\* parse; a push over a store that holds the version list of the name,
\* whatever else fails, leaves the index as it is and writes no empty
\* version list.
C27_OnlyNotFoundInitialises ==
    \A name \in PushNames :
        \A v \in PushVersions(name) :
            /\ \A r \in {PushOutcome(name, v, Fault("err", "read_versions", 1))} :
                   r.st = "BackendOther" /\ r.store = store
            /\ (Has(store, VersionsPath(name)) /\ store[VersionsPath(name)].kind # "versions")
                   => \A r \in {PushOutcome(name, v, NoFault)} :
                          r.st = "ParseError" /\ r.store = store
            /\ Has(store, VersionsPath(name))
                   => \A f \in {NoFault} \cup PushErrors :
                          \A r \in {PushOutcome(name, v, f)} :
                              r.hit = (f # NoFault)
                                  => /\ SameIndex(r.store)
                                     /\ r.store[VersionsPath(name)] = VersionsDoc(<<>>)
                                            => store[VersionsPath(name)] = VersionsDoc(<<>>)

\* C27, its case: a push has just failed on a version list that is in the
\* store and does not parse, and the index does not hold the name.
C27_Witness ==
    /\ last.op = "push" /\ last.st = "ParseError"
    /\ Has(store, VersionsPath(last.arg.name))
    /\ store[VersionsPath(last.arg.name)].kind # "versions"
    /\ Has(store, ArtifactsPath)
    /\ store[ArtifactsPath] = ArtifactsDoc(<<>>)

\* The directory holds a SyncMetadata of the artifact.
HasMeta(dir) ==
    Has(dir, MetaPath(ArtifactName)) /\ dir[MetaPath(ArtifactName)].kind = "syncmeta"

\* C28: no step takes the version recorded in the SyncMetadata of the
\* destination to a lower version, whatever the interleaving of the sync
\* processes with one another and with publications.
C28_RecordedVersionGrows ==
    [][(HasMeta(dest) /\ HasMeta(dest'))
           => ~VersionLess(dest'[MetaPath(ArtifactName)].artifact.version,
                           dest[MetaPath(ArtifactName)].artifact.version)]_vars

\* What push returns when the configuration cannot publish or a local
\* file cannot be read.
LocalFailures ==
    {"NoPublishParameters", "HmacSigningKeyNotFound", "InvalidHmacKey", "IoError"}

\* C29, as stated: a push that fails on the configuration, on the signing
\* key or on the read of a local file leaves the store as it was.
C29_LocalFailureWritesNothing ==
    [][(last'.op = "push" /\ last'.st \in LocalFailures) => store' = store]_vars

\* The names the index of the store holds.
IndexedNames ==
    IF Has(store, ArtifactsPath) THEN store[ArtifactsPath].artifacts ELSE <<>>

\* The store once init_artifact has registered a name it did not hold.
Registered(name) ==
    Put(Put(store, VersionsPath(name), VersionsDoc(<<>>)),
        ArtifactsPath, ArtifactsDoc(Append(IndexedNames, name)))

\* C29: a push that fails on the configuration, on the signing key or on
\* the read of a local file leaves the store as it was when the store
\* held the version list of the name, and otherwise has written the empty
\* version list of the name and the index with the name added, and
\* nothing else.
C29_LocalFailureOnlyInitialises ==
    [][(last'.op = "push" /\ last'.st \in LocalFailures)
           => store' = IF Has(store, VersionsPath(last'.arg.name)) THEN store
                       ELSE Registered(last'.arg.name)]_vars

\* C29, its case: the push of a new artifact has just failed on a signing
\* key of the wrong length, over a store that holds a version of another.
C29_Witness ==
    /\ last.op = "push" /\ last.st = "InvalidHmacKey"
    /\ last.arg.name = OtherName
    /\ Has(store, ArtifactPath(ArtifactName, V100))
    /\ store[VersionsPath(OtherName)] = VersionsDoc(<<>>)

\* C30: the manifest that get or pull of a version returns carries that
\* version, whatever manifests with verifying signatures the store holds.
C30_ReturnedVersionIsAsked ==
    (last.op \in {"get", "pull"} /\ last.st = "Ok")
        => last.out.version = last.arg.version

\* C31: a lock on the lock file is held only by a process that is inside
\* sync between taking the lock and dropping it, on the file it has open:
\* a process that returned, or was killed, holds none, so try_lock_exclusive
\* is refused only because of a process that is still running.
C31_NoLockOutlivesSync ==
    \A i \in Inodes :
        flock[i] # 0 => (lpc[flock[i]] = "locked" /\ fd[flock[i]] = i)

\* C31, its case: the lock file is there and no process is inside sync, so
\* a process was killed after it created it; nobody holds a lock on it.
C31_Witness ==
    /\ linked # 0
    /\ \A p \in Procs : lpc[p] = "idle"
    /\ flock[linked] = 0

\* C32: whenever the version list of the artifact holds a version, the
\* index holds the name of the artifact, in every state that pushes made
\* one at a time reach, pushes killed at any backend call included.
C32_ListedArtifactIsIndexed ==
    (/\ Has(store, VersionsPath(ArtifactName))
     /\ store[VersionsPath(ArtifactName)].kind = "versions"
     /\ store[VersionsPath(ArtifactName)].versions # <<>>)
        => /\ Has(store, ArtifactsPath)
           /\ store[ArtifactsPath].kind = "artifacts"
           /\ ArtifactName \in Range(store[ArtifactsPath].artifacts)

\* The backend paths a push writes after init_artifact, in the order it
\* writes them: one per local file, then the manifest, then the version list.
WrittenPaths(name, version, files) ==
    [i \in DOMAIN files |-> ArtifactFilePath(name, version, files[i].name)]
        \o <<ArtifactPath(name, version), VersionsPath(name)>>

\* C33: the paths a push that succeeded wrote are pairwise distinct, and
\* every payload is in the store as it was uploaded.
C33_WrittenPathsDistinct ==
    (last.op = "push" /\ last.st = "Ok")
        => \A w \in {WrittenPaths(last.arg.name, last.arg.version, last.arg.files)} :
               /\ \A i \in DOMAIN w : \A j \in DOMAIN w : i # j => w[i] # w[j]
               /\ \A i \in DOMAIN last.arg.files :
                      store[w[i]] = Blob(last.arg.files[i].data)

\* C34: a stored manifest of a pushed version whose files list is not the
\* one pushed has another signed string than the one pushed, and get of
\* the version fails with WrongArtifactSignature.
C34_FilesListIsSigned ==
    \A v \in RepoVersions :
        (/\ Has(pushed, v)
         /\ Has(store, ArtifactPath(ArtifactName, v))
         /\ store[ArtifactPath(ArtifactName, v)].kind = "artifact"
         /\ store[ArtifactPath(ArtifactName, v)].artifact.files # pushed[v].files)
            => /\ ToSign(store[ArtifactPath(ArtifactName, v)].artifact.files)
                      # ToSign(pushed[v].files)
               /\ \A g \in {NextGet(v)} : g.st = "WrongArtifactSignature"

\* C35: whatever path of the store is read, at whatever point a writer
\* was killed, the text read is a complete document: never the text of a
\* file that was truncated and not yet written.
C35_NoTornDocumentRead ==
    \A path \in DOMAIN store :
        \A r \in {read_file(Machine(store, EmptyDir, 0, TestConfig, NoFault), "read", path)} :
            Running(r) => r.out # TornDoc

\* The lines of stream s among the writes: each newline ends a line, and
\* the bytes after the last newline are a line of their own.
RECURSIVE LinesOf(_, _, _)
LinesOf(writes, s, cur) ==
    IF writes = <<>> THEN (IF cur # "" THEN <<Line(s, cur)>> ELSE <<>>)
    ELSE IF Head(writes).stream # s THEN LinesOf(Tail(writes), s, cur)
    ELSE IF Head(writes).byte = "\n"
         THEN <<Line(s, cur)>> \o LinesOf(Tail(writes), s, "")
         ELSE LinesOf(Tail(writes), s, cur \o Head(writes).byte)

\* C36: the output_lines that extexec returns are the Cmd line followed by
\* lines tagged Out or Err; those tagged Out are the lines the child wrote
\* to stdout, in order, a last line without newline included, and those
\* tagged Err the lines it wrote to stderr.
C36_EveryLineCaptured ==
    ex.pc = "done"
        => /\ ex.out # <<>>
           /\ ex.out[1] = CmdLine
           /\ \A i \in 2..Len(ex.out) : ex.out[i].line_type \in Streams
           /\ \A s \in Streams :
                  SelectSeq(Tail(ex.out), LAMBDA l : l.line_type = s)
                      = LinesOf(ex.script, s, "")

\* C36, its case: extexec has returned the lines of a child that wrote two
\* lines to stderr, the second without newline, mirrored to the caller.
C36_Witness ==
    /\ ex.pc = "done" /\ ex.tee
    /\ ex.out = <<CmdLine, Line("Err", "a"), Line("Err", "b")>>
    /\ ex.mirror["Err"] = "a\nb"

\* Every line the child wrote ends with a newline.
Terminated(script) ==
    \A s \in Streams :
        \A i \in DOMAIN script :
            (script[i].stream = s /\ \A j \in (i + 1)..Len(script) : script[j].stream # s)
                => script[i].byte = "\n"

\* The lines of both streams in the order the child ended them.
RECURSIVE LinesInOrder(_, _)
LinesInOrder(writes, cur) ==
    IF writes = <<>> THEN <<>>
    ELSE IF Head(writes).byte = "\n"
         THEN <<Line(Head(writes).stream, cur[Head(writes).stream])>>
                  \o LinesInOrder(Tail(writes), [cur EXCEPT ![Head(writes).stream] = ""])
         ELSE LinesInOrder(Tail(writes),
                           [cur EXCEPT ![Head(writes).stream] = @ \o Head(writes).byte])

\* C37: after the Cmd line, the output_lines of a child that ended every
\* line with a newline are its lines in the order it wrote them, across
\* both streams.
C37_OrderAcrossStreams ==
    (ex.pc = "done" /\ Terminated(ex.script))
        => Tail(ex.out) = LinesInOrder(ex.script, [s \in Streams |-> ""])

\* C39: once the child has exited, extexec returns.
C39_ReturnsAfterExit == (ex.pc # "idle" /\ ex.exited) ~> (ex.pc = "done")

\* C38: for each operation of the sync command or of a batch, command
\* lines were run only when sync returned Updated, never when it returned
\* UpToDate or an error; and when it returned Updated and the operation
\* has a command, the command was run.
C38_HookOnlyAfterUpdated ==
    last.op \in {"sync_command", "batch_sync"}
        => /\ Len(last.out) <= Len(last.arg)
           /\ \A i \in DOMAIN last.out :
                  /\ last.out[i].runs # <<>> => last.out[i].status = "Updated"
                  /\ (last.out[i].status = "Updated" /\ last.arg[i].command # <<>>)
                         => last.out[i].runs # <<>>

\* C38, its case: a batch of two operations whose first sync returned
\* Updated and ran its hook, and whose second returned UpToDate and ran
\* nothing.
C38_Witness ==
    /\ last.op = "batch_sync" /\ last.st = "Ok"
    /\ Len(last.out) = 2
    /\ last.out[1].status = "Updated" /\ last.out[1].runs # <<>>
    /\ last.out[2].status = "UpToDate" /\ last.out[2].runs = <<>>
    /\ last.arg[2].command # <<>>

====
